---- MODULE Spec2Model ----
(***************************************************************************)
(* Kodex: the documentation generator (generateDocs, regenerateSingleDoc), *)
(* the feature scanner (detectFeatures, scanCodebase) with its extractors  *)
(* (detectFramework, extractRoutes, buildPages), the scan command and the  *)
(* dashboard's PUT /api/docs/[id] as state machines.  Topic ids are        *)
(* sequences of one-character strings; paths are strings read character by *)
(* character; confidences are in hundredths (0.9 is 90).                   *)
(***************************************************************************)
EXTENDS Integers, Sequences, FiniteSets, TLC

VARIABLES
    \* inputs of generateDocs / regenerateSingleDoc
    kbItems,        \* existingKb.items
    features,       \* codeMap.features
    configTopics,   \* config.docs.topics
    options,        \* GenerateOptions {changedOnly, dryRun, mock}
    \* locals of generateDocs
    items, generated, updated, skipped,
    i,              \* position of the for loop in topicsToGenerate
    pc,             \* where the running function is
    now,            \* the clock behind Date.now() / new Date()
    calls,          \* topic ids handed to the generation backend, in order
    plan,           \* what the loop did with each topic, in order
    regenId,        \* itemId argument of regenerateSingleDoc
    regenResult,    \* value returned by regenerateSingleDoc: <<>> for null, <<item>>
    \* scanner
    files,          \* project.getSourceFiles(), each file as what the patterns find in it
    fileIdx,        \* position of the loop over the files
    allFeatures,    \* per-file features, accumulated
    mergeIdx,       \* position of the deduplication loop in allFeatures
    featuresMap,    \* the Map of the deduplication, in insertion order
    faulty,         \* the file ts-morph throws on, if any, and where it does
    \* scanCommand
    config,         \* kodex.config.yaml as the project holds it
    cmdOptions,     \* ScanOptions {changed, dryRun, generate, mock}
    disk,           \* .kodex on disk: items.json and codemap.json
    io,             \* what the command has done so far: reads, scans, plans, writes
    \* dashboard API
    request,        \* the request a route handler is serving
    response,       \* its response: the status, and the item of a 200
    \* scanner: framework, routes, pages
    project,        \* the source files detectFramework looks at: paths and imports
    frameworkSetting, \* config.scan.framework
    framework,      \* the framework the scan works with
    relativePath,   \* the path extractRoutes is given, as its segments
    routes, components, strings,   \* what the extractors have found
    pages,          \* what buildPages returns
    \* generateDoc on its own
    answer,         \* what generateText resolves to, and what JSON.parse makes of it
    doc,            \* what generateDoc returns
    \* extractStrings
    candidates,     \* the attribute values and texts found in the JSX of a file
    \* generateDocs run twice
    firstRun,       \* what the first of two runs did: its plan and its items
    \* dashboard requests served at the same time
    procs           \* per request: what it asks, where its handler is, its copy of the items

inputVars == <<kbItems, features, configTopics, options>>

genVars == <<items, generated, updated, skipped, i, now, calls, plan>>

regenVars == <<regenId, regenResult>>

scanVars == <<files, fileIdx, allFeatures, mergeIdx, featuresMap, faulty>>

cmdVars == <<config, cmdOptions, disk, io>>

apiVars == <<request, response>>

extractVars == <<project, frameworkSetting, framework, relativePath, routes, components,
                 strings, pages>>

docVars == <<answer, doc>>

laterVars == <<candidates, firstRun, procs>>

moreVars == <<docVars, laterVars>>

restVars == <<apiVars, extractVars, moreVars>>

vars == <<inputVars, genVars, regenVars, scanVars, cmdVars, restVars, pc>>

----------------------------------------------------------------------------
\* Bounds of the model

MaxItems == 2

MaxFiles == 2

MaxMatches == 5

ScanMatches == 2

MaxRoutes == 1

MaxComponents == 2

MaxSegments == 2

MaxStrings == 2

----------------------------------------------------------------------------
\* Helpers

Range(s) == {s[k] : k \in 1..Len(s)}

MinOf(S) == CHOOSE x \in S : \A y \in S : x <= y

MaxOf(S) == CHOOSE x \in S : \A y \in S : x >= y

\* id.split('.')[0]: the text before the first '.', the whole id without one
Category(id) ==
    LET dots == {k \in 1..Len(id) : id[k] = "."}
    IN  IF dots = {} THEN id ELSE SubSeq(id, 1, MinOf(dots) - 1)

\* id.replace(/\./g, '-')
ReplaceDots(id) == [k \in 1..Len(id) |-> IF id[k] = "." THEN "-" ELSE id[k]]

\* `kb-${topic.id.replace(/\./g, '-')}-${Date.now()}`
FreshId(id, t) == [topic |-> ReplaceDots(id), ts |-> t]

\* topic.evidence.map(e => e.sourceFile)
SourceFilesOf(f) == [k \in 1..Len(f.evidence) |-> f.evidence[k].sourceFile]

----------------------------------------------------------------------------
\* Inputs

TopicA == <<"a", ".", "x", "-", "y">>
TopicB == <<"a", ".", "b", ".", "z">>
TopicC == <<"a", "b", ".", "x">>

TopicIds == <<TopicA, TopicB, TopicC>>

BaseConfidence(id) == IF id = TopicA THEN 90 ELSE IF id = TopicB THEN 95 ELSE 70

Evidence(file) == [pattern |-> "p", sourceFile |-> file, line |-> 1]

\* the evidence of each topic: against the sourceFiles <<"f1", "f2">> of the
\* existing items, a file has gone, a file is new, the files are the same
EvidenceOf(id) ==
    IF id = TopicA THEN <<Evidence("f1")>>
    ELSE IF id = TopicB THEN <<Evidence("f1"), Evidence("f3")>>
    ELSE <<Evidence("f2"), Evidence("f1"), Evidence("f2")>>

Feature(id) == [id |-> id, confidence |-> BaseConfidence(id), evidence |-> EvidenceOf(id)]

\* codeMap.features: some of the topics, in catalog order, one feature per id
RECURSIVE FeatureLists(_)
FeatureLists(k) ==
    IF k > Len(TopicIds) THEN { <<>> }
    ELSE LET rest == FeatureLists(k + 1)
         IN  rest \cup { <<Feature(TopicIds[k])>> \o r : r \in rest }

TopicConfigs == { <<<<"a">>>>, <<<<"a", "b">>, <<"a">>>> }

\* an item written by an earlier run, the k-th of the knowledge base
ExistingItem(k, c) ==
    [ id          |-> FreshId(c.topic, 0 - k),
      topic       |-> c.topic,
      title       |-> <<"O", "l", "d">>,
      pages       |-> <<>>,
      content     |-> <<"old">>,
      sourceFiles |-> <<"f1", "f2">>,
      codeVersion |-> "scan0",
      generatedAt |-> 0 - k,
      status      |-> "approved",
      confidence  |-> 50,
      humanEdited |-> c.humanEdited,
      pinned      |-> c.pinned ]

\* untouched, edited by a human, edited and pinned
ItemFlags ==
    { [humanEdited |-> FALSE, pinned |-> FALSE],
      [humanEdited |-> TRUE,  pinned |-> FALSE],
      [humanEdited |-> TRUE,  pinned |-> TRUE] }

ItemChoices ==
    { [topic |-> t, humanEdited |-> f.humanEdited, pinned |-> f.pinned] :
        t \in Range(TopicIds), f \in ItemFlags }

\* the knowledge base on disk: up to MaxItems items, a topic may have several
KnowledgeBases ==
    UNION { { [k \in 1..n |-> ExistingItem(k, cs[k])] : cs \in [1..n -> ItemChoices] }
            : n \in 0..MaxItems }

ScannedAt == "scan1"

\* what generateText does: it throws, or answers with a text that JSON.parse
\* turns into an object with a title, pages and a content, or with another text
Responses ==
    { [throws |-> TRUE,  text |-> <<>>, json |-> FALSE,
       title |-> <<>>, pages |-> <<>>, content |-> <<>>],
      [throws |-> FALSE, text |-> <<"raw">>, json |-> TRUE,
       title |-> <<"T">>, pages |-> <<"/p">>, content |-> <<"body">>],
      [throws |-> FALSE, text |-> <<"raw">>, json |-> FALSE,
       title |-> <<>>, pages |-> <<>>, content |-> <<>>] }

----------------------------------------------------------------------------
\* The generation backend

\* feature.id.split('.').pop()?.replace(/-/g, ' ') || feature.id
TopicName(id) ==
    LET dots == {k \in 1..Len(id) : id[k] = "."}
        last == IF dots = {} THEN id ELSE SubSeq(id, MaxOf(dots) + 1, Len(id))
        name == [k \in 1..Len(last) |-> IF last[k] = "-" THEN " " ELSE last[k]]
    IN  IF name = <<>> THEN id ELSE name

Upper(c) ==
    IF c = "a" THEN "A" ELSE IF c = "b" THEN "B" ELSE IF c = "x" THEN "X"
    ELSE IF c = "y" THEN "Y" ELSE IF c = "z" THEN "Z" ELSE c

\* topicName.replace(/\b\w/g, c => c.toUpperCase())
TitleCase(name) ==
    [k \in 1..Len(name) |->
        IF name[k] # " " /\ (k = 1 \/ name[k - 1] = " ") THEN Upper(name[k])
        ELSE name[k]]

\* mutant: the parsed fields are taken as they are, and a text that does not
\* parse leaves no content
generateDocNoFallback(feature, r) ==
    IF r.json
    THEN [title |-> r.title, pages |-> r.pages, content |-> r.content]
    ELSE [title |-> TopicName(feature.id), pages |-> <<>>, content |-> <<>>]

\* generateDoc after generateText has answered with r
generateDoc(feature, r) ==
    IF r.json
    THEN [ title   |-> IF r.title # <<>> THEN r.title ELSE TopicName(feature.id),
           pages   |-> r.pages,
           content |-> IF r.content # <<>> THEN r.content ELSE r.text ]
    ELSE [ title |-> TopicName(feature.id), pages |-> <<>>, content |-> r.text ]

\* generateMockDoc: title and the heading line of the content; the code map of
\* these runs has no pages, so none is extracted from the context
generateMockDoc(feature) ==
    [ title   |-> TitleCase(TopicName(feature.id)),
      pages   |-> <<>>,
      content |-> <<"# ">> \o TitleCase(TopicName(feature.id)) \o <<"mock body">> ]

----------------------------------------------------------------------------
\* generateDocs

\* mutant: the allow-list matched as a prefix of the id (id.startsWith(topic))
getTopicsByStartsWith(fs, topics) ==
    SelectSeq(fs, LAMBDA f : \E c \in Range(topics) :
                      Len(f.id) >= Len(c) /\ SubSeq(f.id, 1, Len(c)) = c)

getTopicsFromFeatures(fs, topics) ==
    SelectSeq(fs, LAMBDA f : Category(f.id) \in Range(topics))

topicsToGenerate == getTopicsFromFeatures(features, configTopics)

\* existingByTopic.get(id): the position in existingKb.items of the item the
\* map holds for the topic (the last one set), 0 for undefined
ExistingByTopic(id) ==
    LET at == {k \in 1..Len(kbItems) : kbItems[k].topic = id}
    IN  IF at = {} THEN 0 ELSE MaxOf(at)

\* mutant: the item to replace looked up by topic (i.topic === existing.topic)
FindIndexByTopic(list, id) ==
    LET at == {k \in 1..Len(list) : ReplaceDots(list[k].topic) = id.topic}
    IN  IF at = {} THEN 0 ELSE MinOf(at)

\* items.findIndex(i => i.id === id), 0 for -1
FindIndex(list, id) ==
    LET at == {k \in 1..Len(list) : list[k].id = id}
    IN  IF at = {} THEN 0 ELSE MinOf(at)

\* mutant: any difference between the two file sets counts as a change
HasChangesEitherWay(topic, existing) ==
    Range(SourceFilesOf(topic)) # Range(existing.sourceFiles)

\* sourceFiles.some(f => !existingFiles.has(f))
HasChanges(topic, existing) ==
    \E f \in Range(SourceFilesOf(topic)) : f \notin Range(existing.sourceFiles)

\* mutant: the files of the evidence are not recorded with the item
NewItemWithoutFiles(topic, ex, result, t) ==
    [ id          |-> IF ex # 0 THEN kbItems[ex].id ELSE FreshId(topic.id, t),
      topic       |-> topic.id,
      title       |-> result.title,
      pages       |-> result.pages,
      content     |-> result.content,
      sourceFiles |-> IF ex # 0 THEN kbItems[ex].sourceFiles ELSE << >>,
      codeVersion |-> ScannedAt,
      generatedAt |-> t,
      status      |-> "draft",
      confidence  |-> topic.confidence,
      humanEdited |-> IF ex # 0 THEN kbItems[ex].humanEdited ELSE FALSE,
      pinned      |-> FALSE ]

\* the KnowledgeItem built after a successful generation
NewItem(topic, ex, result, t) ==
    [ id          |-> IF ex # 0 THEN kbItems[ex].id ELSE FreshId(topic.id, t),
      topic       |-> topic.id,
      title       |-> result.title,
      pages       |-> result.pages,
      content     |-> result.content,
      sourceFiles |-> SourceFilesOf(topic),
      codeVersion |-> ScannedAt,
      generatedAt |-> t,
      status      |-> "draft",
      confidence  |-> topic.confidence,
      humanEdited |-> IF ex # 0 THEN kbItems[ex].humanEdited ELSE FALSE,
      pinned      |-> FALSE ]

\* one line of the plan: the topic, the position of its existing item (0 for
\* none), what was done, and the position in calls of its backend call (0: none)
Log(topic, ex, class, call) ==
    Append(plan, [topic |-> topic.id, existing |-> ex, class |-> class, call |-> call])

NoResult == [title |-> <<>>, pages |-> <<>>, content |-> <<>>]

Called(topic, ok, result) ==
    Append(calls, [topic |-> topic.id, ok |-> ok, result |-> result])

InLoop == pc = "loop" /\ i <= Len(topicsToGenerate)

\* mutant: the status field consulted in place of the pinned flag
PinnedByStatus(ex) == ex # 0 /\ kbItems[ex].status = "pinned"

\* existing?.pinned
Pinned(ex) == ex # 0 /\ kbItems[ex].pinned

\* mutant: the unchanged test applied whatever options.changedOnly says
UnchangedInAnyMode(topic, ex) == ex # 0 /\ ~HasChanges(topic, kbItems[ex])

\* options.changedOnly && existing && !hasChanges
Unchanged(topic, ex) ==
    options.changedOnly /\ ex # 0 /\ ~HasChanges(topic, kbItems[ex])

\* entry: items = [...existingKb.items], the counters, createModel succeeds
GenStart ==
    /\ pc = "start"
    /\ pc' = "loop"
    /\ items' = kbItems
    /\ generated' = 0 /\ updated' = 0 /\ skipped' = 0
    /\ i' = 1
    /\ UNCHANGED <<restVars, cmdVars, inputVars, regenVars, now, calls, plan, scanVars>>

\* entry: createModel(config) throws (unknown provider, no API key)
GenCreateModelThrows ==
    /\ pc = "start"
    /\ ~options.mock
    /\ pc' = "thrown"
    /\ UNCHANGED <<restVars, cmdVars, inputVars, regenVars, genVars, scanVars>>

\* if (existing?.pinned) { skipped++; continue; }
GenSkipPinned ==
    /\ InLoop
    /\ LET topic == topicsToGenerate[i]
           ex    == ExistingByTopic(topic.id)
       IN  /\ Pinned(ex)
           /\ skipped' = skipped + 1
           /\ plan' = Log(topic, ex, "skip-pinned", 0)
    /\ i' = i + 1
    /\ UNCHANGED <<restVars, cmdVars, inputVars, regenVars, items, generated, updated, pc, now, calls,
                   scanVars>>

\* if (options.changedOnly && existing) { ... if (!hasChanges) { skipped++; continue; } }
GenSkipUnchanged ==
    /\ InLoop
    /\ LET topic == topicsToGenerate[i]
           ex    == ExistingByTopic(topic.id)
       IN  /\ ~Pinned(ex)
           /\ Unchanged(topic, ex)
           /\ skipped' = skipped + 1
           /\ plan' = Log(topic, ex, "skip-unchanged", 0)
    /\ i' = i + 1
    /\ UNCHANGED <<restVars, cmdVars, inputVars, regenVars, items, generated, updated, pc, now, calls,
                   scanVars>>

\* mutant: a dry run counts every topic it would write as generated
GenDryRunCountsGenerated ==
    /\ InLoop
    /\ options.dryRun
    /\ LET topic == topicsToGenerate[i]
           ex    == ExistingByTopic(topic.id)
       IN  /\ ~Pinned(ex)
           /\ ~Unchanged(topic, ex)
           /\ generated' = generated + 1 /\ UNCHANGED updated
           /\ plan' = Log(topic, ex, IF ex # 0 THEN "update" ELSE "create", 0)
    /\ i' = i + 1
    /\ UNCHANGED <<restVars, cmdVars, inputVars, regenVars, items, skipped, pc, now, calls, scanVars>>

\* the else branch of if (!options.dryRun): just count
GenDryRun ==
    /\ InLoop
    /\ options.dryRun
    /\ LET topic == topicsToGenerate[i]
           ex    == ExistingByTopic(topic.id)
       IN  /\ ~Pinned(ex)
           /\ ~Unchanged(topic, ex)
           /\ IF ex # 0
              THEN updated' = updated + 1 /\ UNCHANGED generated
              ELSE generated' = generated + 1 /\ UNCHANGED updated
           /\ plan' = Log(topic, ex, IF ex # 0 THEN "update" ELSE "create", 0)
    /\ i' = i + 1
    /\ UNCHANGED <<restVars, cmdVars, inputVars, regenVars, items, skipped, pc, now, calls, scanVars>>

\* mutant: an updated item leaves its place and goes to the end of the list
StoredAtEnd(item, ex) ==
    IF ex # 0
    THEN LET index == FindIndex(items, kbItems[ex].id)
         IN  IF index # 0
             THEN [items |-> Append(SubSeq(items, 1, index - 1)
                                        \o SubSeq(items, index + 1, Len(items)), item),
                   generated |-> generated, updated |-> updated + 1,
                   class |-> "update"]
             ELSE [items |-> items, generated |-> generated, updated |-> updated,
                   class |-> "lost"]
    ELSE [items |-> Append(items, item), generated |-> generated + 1,
          updated |-> updated, class |-> "create"]

\* the items and counters after the update-or-add of a built item
Stored(item, ex) ==
    IF ex # 0
    THEN LET index == FindIndex(items, kbItems[ex].id)
         IN  IF index # 0
             THEN [items |-> [items EXCEPT ![index] = item],
                   generated |-> generated, updated |-> updated + 1,
                   class |-> "update"]
             ELSE [items |-> items, generated |-> generated, updated |-> updated,
                   class |-> "lost"]
    ELSE [items |-> Append(items, item), generated |-> generated + 1,
          updated |-> updated, class |-> "create"]

\* the try block once the backend has answered, at time t
GenStore(topic, ex, result, t) ==
    LET s == Stored(NewItem(topic, ex, result, t), ex)
    IN  /\ items' = s.items
        /\ generated' = s.generated
        /\ updated' = s.updated
        /\ calls' = Called(topic, TRUE, result)
        /\ plan' = Log(topic, ex, s.class, Len(calls) + 1)
        /\ now' = t

\* generateMockDoc(topic, context, config.name): synchronous, never throws
GenMock ==
    /\ InLoop
    /\ ~options.dryRun
    /\ options.mock
    /\ LET topic == topicsToGenerate[i]
           ex    == ExistingByTopic(topic.id)
       IN  /\ ~Pinned(ex)
           /\ ~Unchanged(topic, ex)
           /\ GenStore(topic, ex, generateMockDoc(topic), now)
    /\ i' = i + 1
    /\ UNCHANGED <<restVars, cmdVars, inputVars, regenVars, skipped, pc, scanVars>>

\* await generateDoc(model, topic, context, config.name) returns; the clock
\* has moved on across the await
GenBackendOk ==
    /\ InLoop
    /\ ~options.dryRun
    /\ ~options.mock
    /\ \E r \in Responses :
         LET topic == topicsToGenerate[i]
             ex    == ExistingByTopic(topic.id)
         IN  /\ ~r.throws
             /\ ~Pinned(ex)
             /\ ~Unchanged(topic, ex)
             /\ GenStore(topic, ex, generateDoc(topic, r), now + 1)
    /\ i' = i + 1
    /\ UNCHANGED <<restVars, cmdVars, inputVars, regenVars, skipped, pc, scanVars>>

\* mutant: no catch around the backend call, the rejection leaves generateDocs
GenBackendThrows ==
    /\ InLoop
    /\ ~options.dryRun
    /\ ~options.mock
    /\ \E r \in Responses :
         LET topic == topicsToGenerate[i]
             ex    == ExistingByTopic(topic.id)
         IN  /\ r.throws
             /\ ~Pinned(ex)
             /\ ~Unchanged(topic, ex)
             /\ calls' = Called(topic, FALSE, NoResult)
    /\ now' = now + 1
    /\ pc' = "thrown"
    /\ UNCHANGED <<restVars, cmdVars, inputVars, regenVars, items, generated, updated, skipped, i, plan,
                   scanVars>>

\* mutant: the catch logs the failure and counts nothing
GenBackendFailsUncounted ==
    /\ InLoop
    /\ ~options.dryRun
    /\ ~options.mock
    /\ \E r \in Responses :
         LET topic == topicsToGenerate[i]
             ex    == ExistingByTopic(topic.id)
         IN  /\ r.throws
             /\ ~Pinned(ex)
             /\ ~Unchanged(topic, ex)
             /\ calls' = Called(topic, FALSE, NoResult)
             /\ skipped' = skipped
             /\ plan' = Log(topic, ex, "failed", Len(calls) + 1)
             /\ now' = now + 1
    /\ i' = i + 1
    /\ UNCHANGED <<restVars, cmdVars, inputVars, regenVars, items, generated, updated, pc, scanVars>>

\* await generateDoc(...) throws: catch (error) { console.error(...); skipped++; }
GenBackendFails ==
    /\ InLoop
    /\ ~options.dryRun
    /\ ~options.mock
    /\ \E r \in Responses :
         LET topic == topicsToGenerate[i]
             ex    == ExistingByTopic(topic.id)
         IN  /\ r.throws
             /\ ~Pinned(ex)
             /\ ~Unchanged(topic, ex)
             /\ calls' = Called(topic, FALSE, NoResult)
             /\ skipped' = skipped + 1
             /\ plan' = Log(topic, ex, "failed", Len(calls) + 1)
             /\ now' = now + 1
    /\ i' = i + 1
    /\ UNCHANGED <<restVars, cmdVars, inputVars, regenVars, items, generated, updated, pc, scanVars>>

\* return { items, generated, updated, skipped, tokensUsed }
GenReturn ==
    /\ pc = "loop"
    /\ i > Len(topicsToGenerate)
    /\ pc' = "done"
    /\ UNCHANGED <<restVars, cmdVars, inputVars, regenVars, genVars, scanVars>>

NoId == FreshId(<<>>, 0)

\* no scanCommand is running
NoConfig ==
    [file |-> "none", content |-> FALSE, provider |-> "", model |-> "", apiKey |-> FALSE,
     customTopics |-> << >>]

CmdIdle ==
    /\ config = NoConfig
    /\ cmdOptions = [changed |-> FALSE, dryRun |-> FALSE, generate |-> TRUE, mock |-> FALSE]
    /\ disk = [items |-> << >>, codeMap |-> << >>]
    /\ io = << >>

\* no request is being served
NoRequest == [id |-> NoId, path |-> FALSE, updates |-> << >>]

NoResponse == [status |-> 0]

ApiIdle ==
    /\ request = NoRequest
    /\ response = NoResponse

\* no extractor is at work
ExtractIdle ==
    /\ project = << >>
    /\ frameworkSetting = "auto"
    /\ framework = "undefined"
    /\ relativePath = << >>
    /\ routes = << >>
    /\ components = << >>
    /\ strings = << >>
    /\ pages = << >>

\* generateDoc is not being looked at on its own
NoAnswer == [text |-> "", parsed |-> [kind |-> "none"]]

NoDoc == [title |-> << >>, pages |-> << >>, content |-> << >>, returned |-> FALSE]

DocIdle ==
    /\ answer = NoAnswer
    /\ doc = NoDoc

\* generateDocs has not run before
NoFirstRun == [done |-> FALSE, plan |-> << >>, items |-> << >>]

LaterIdle ==
    /\ candidates = << >>
    /\ firstRun = NoFirstRun
    /\ procs = << >>

MoreIdle == DocIdle /\ LaterIdle

RestIdle == ApiIdle /\ ExtractIdle /\ MoreIdle

\* no file of the project makes ts-morph throw
NoFault == [file |-> 0, at |-> "add"]

GenIdle ==
    /\ items = <<>>
    /\ generated = 0 /\ updated = 0 /\ skipped = 0
    /\ i = 0
    /\ now = 0
    /\ calls = <<>>
    /\ plan = <<>>

ScanIdle ==
    /\ files = <<>>
    /\ fileIdx = 0
    /\ allFeatures = <<>>
    /\ mergeIdx = 0
    /\ featuresMap = <<>>
    /\ faulty = NoFault

GenInit ==
    /\ kbItems \in KnowledgeBases
    /\ features \in FeatureLists(1)
    /\ configTopics \in TopicConfigs
    /\ options \in [changedOnly : BOOLEAN, dryRun : BOOLEAN, mock : BOOLEAN]
    /\ pc = "start"
    /\ GenIdle
    /\ CmdIdle
    /\ RestIdle
    /\ regenId = NoId
    /\ regenResult = <<>>
    /\ ScanIdle

GenNext ==
    \/ GenStart
    \/ GenCreateModelThrows
    \/ GenSkipPinned
    \/ GenSkipUnchanged
    \/ GenDryRun
    \/ GenMock
    \/ GenBackendOk
    \/ GenBackendFails
    \/ GenReturn

Spec == GenInit /\ [][GenNext]_vars

----------------------------------------------------------------------------
\* generateDocs run a second time on the same code map

\* the items returned by a real run are saved and become the knowledge base
\* of a second run in changed-only mode, against the same backend or mock
RerunChangedOnly ==
    /\ pc = "done"
    /\ ~firstRun.done
    /\ ~options.dryRun
    /\ firstRun' = [done |-> TRUE, plan |-> plan, items |-> items]
    /\ kbItems' = items
    /\ \E dry \in BOOLEAN :
         options' = [changedOnly |-> TRUE, dryRun |-> dry, mock |-> options.mock]
    /\ items' = << >>
    /\ generated' = 0 /\ updated' = 0 /\ skipped' = 0
    /\ i' = 0
    /\ calls' = << >>
    /\ plan' = << >>
    /\ pc' = "start"
    /\ UNCHANGED <<features, configTopics, now, regenVars, scanVars, cmdVars, apiVars,
                   extractVars, docVars, candidates, procs>>

\* the first run is a full, real one
RerunInit == GenInit /\ ~options.dryRun /\ ~options.changedOnly

RerunNext == GenNext \/ RerunChangedOnly

SpecRerun == RerunInit /\ [][RerunNext]_vars

----------------------------------------------------------------------------
\* regenerateSingleDoc

\* existingKb.items.find(item => item.id === itemId), as a position, 0 for none
RegenExisting == FindIndex(kbItems, regenId)

\* codeMap.features.find(f => f.id === existingItem.topic), as a position
FindFeature(id) ==
    LET at == {k \in 1..Len(features) : features[k].id = id}
    IN  IF at = {} THEN 0 ELSE MinOf(at)

\* the item regenerateSingleDoc builds from the backend's result at time t
RegeneratedItem(existingItem, feature, result, t) ==
    [ existingItem EXCEPT
        !.title       = result.title,
        !.pages       = IF Len(result.pages) > 0 THEN result.pages ELSE existingItem.pages,
        !.content     = result.content,
        !.sourceFiles = SourceFilesOf(feature),
        !.codeVersion = ScannedAt,
        !.generatedAt = t,
        !.status      = "draft",
        !.confidence  = feature.confidence,
        !.humanEdited = FALSE ]

\* if (!existingItem) return null
RegenNotFound ==
    /\ pc = "start"
    /\ RegenExisting = 0
    /\ regenResult' = <<>>
    /\ pc' = "returned"
    /\ UNCHANGED <<restVars, cmdVars, inputVars, genVars, regenId, scanVars>>

\* if (!feature) return { ...existingItem, generatedAt, status: 'draft', humanEdited: false }
RegenNoFeature ==
    /\ pc = "start"
    /\ RegenExisting # 0
    /\ LET existingItem == kbItems[RegenExisting]
       IN  /\ FindFeature(existingItem.topic) = 0
           /\ regenResult' = << [existingItem EXCEPT !.generatedAt = now,
                                                     !.status = "draft",
                                                     !.humanEdited = FALSE] >>
    /\ pc' = "returned"
    /\ UNCHANGED <<restVars, cmdVars, inputVars, genVars, regenId, scanVars>>

\* createModel(config) throws, outside the try block
RegenCreateModelThrows ==
    /\ pc = "start"
    /\ RegenExisting # 0
    /\ FindFeature(kbItems[RegenExisting].topic) # 0
    /\ ~options.mock
    /\ pc' = "thrown"
    /\ UNCHANGED <<restVars, cmdVars, inputVars, genVars, regenVars, scanVars>>

RegenMock ==
    /\ pc = "start"
    /\ RegenExisting # 0
    /\ options.mock
    /\ LET existingItem == kbItems[RegenExisting]
           f == FindFeature(existingItem.topic)
       IN  /\ f # 0
           /\ calls' = Called(features[f], TRUE, generateMockDoc(features[f]))
           /\ regenResult' = << RegeneratedItem(existingItem, features[f],
                                                generateMockDoc(features[f]), now) >>
    /\ pc' = "returned"
    /\ UNCHANGED <<restVars, cmdVars, inputVars, items, generated, updated, skipped, i, now, plan,
                   regenId, scanVars>>

RegenBackendOk ==
    /\ pc = "start"
    /\ RegenExisting # 0
    /\ ~options.mock
    /\ \E r \in Responses :
         LET existingItem == kbItems[RegenExisting]
             f == FindFeature(existingItem.topic)
         IN  /\ ~r.throws
             /\ f # 0
             /\ calls' = Called(features[f], TRUE, generateDoc(features[f], r))
             /\ regenResult' = << RegeneratedItem(existingItem, features[f],
                                                  generateDoc(features[f], r), now + 1) >>
    /\ now' = now + 1
    /\ pc' = "returned"
    /\ UNCHANGED <<restVars, cmdVars, inputVars, items, generated, updated, skipped, i, plan,
                   regenId, scanVars>>

\* catch (error) { console.error(...); return null; }
RegenBackendFails ==
    /\ pc = "start"
    /\ RegenExisting # 0
    /\ ~options.mock
    /\ \E r \in Responses :
         LET existingItem == kbItems[RegenExisting]
             f == FindFeature(existingItem.topic)
         IN  /\ r.throws
             /\ f # 0
             /\ calls' = Called(features[f], FALSE, NoResult)
    /\ regenResult' = <<>>
    /\ now' = now + 1
    /\ pc' = "returned"
    /\ UNCHANGED <<restVars, cmdVars, inputVars, items, generated, updated, skipped, i, plan,
                   regenId, scanVars>>

UnknownId == FreshId(TopicA, 1)

RegenInit ==
    /\ kbItems \in KnowledgeBases
    /\ features \in FeatureLists(1)
    /\ configTopics \in TopicConfigs
    /\ options \in [changedOnly : {FALSE}, dryRun : {FALSE}, mock : BOOLEAN]
    /\ pc = "start"
    /\ GenIdle
    /\ CmdIdle
    /\ RestIdle
    /\ regenId \in {kbItems[k].id : k \in 1..Len(kbItems)} \cup {UnknownId}
    /\ regenResult = <<>>
    /\ ScanIdle

RegenNext ==
    \/ RegenNotFound
    \/ RegenNoFeature
    \/ RegenCreateModelThrows
    \/ RegenMock
    \/ RegenBackendOk
    \/ RegenBackendFails

SpecRegen == RegenInit /\ [][RegenNext]_vars

----------------------------------------------------------------------------
\* detectFeatures

\* FEATURE_PATTERNS, reduced to two entries: patterns are named, not written out
Catalog ==
    << [id |-> TopicA, patterns |-> <<"r1", "r2">>, confidence |-> 90],
       [id |-> TopicB, patterns |-> <<"r3">>,       confidence |-> 95] >>

Regexes == UNION { Range(Catalog[e].patterns) : e \in 1..Len(Catalog) }

EvidenceCap == 10

\* A source file, as far as the detector can tell: its path, and for each
\* pattern whether the path matches and how many matches the text holds
\* (the j-th match of a pattern stands on line j).
File(path, hits) == [path |-> path, hits |-> hits]

\* the evidence one pattern finds: the path match first, then the text matches
PatternEvidence(file, regex) ==
    LET h == file.hits[regex]
    IN  (IF h.inPath
         THEN << [pattern |-> <<regex, "source">>, sourceFile |-> file.path, line |-> 1] >>
         ELSE << >>)
        \o [j \in 1..h.n |->
              [pattern |-> <<regex, "match">>, sourceFile |-> file.path, line |-> j]]

\* the inner loop over pattern.patterns
RECURSIVE EntryEvidence(_, _, _)
EntryEvidence(file, patterns, k) ==
    IF k > Len(patterns) THEN << >>
    ELSE PatternEvidence(file, patterns[k]) \o EntryEvidence(file, patterns, k + 1)

Min2(a, b) == IF a <= b THEN a ELSE b

\* mutant: the adjustments without Math.min
AdjustedConfidenceUncapped(base, count) ==
    base + (IF count >= 3 THEN 5 ELSE 0) + (IF count >= 5 THEN 5 ELSE 0)

\* let confidence = pattern.confidence; the two adjustments, in hundredths
AdjustedConfidence(base, count) ==
    LET c1 == IF count >= 3 THEN Min2(base + 5, 100) ELSE base
    IN  IF count >= 5 THEN Min2(c1 + 5, 100) ELSE c1

\* mutant: the last n records are kept, evidence.slice(-10)
SliceFromEnd(seq, n) == SubSeq(seq, Len(seq) - Min2(Len(seq), n) + 1, Len(seq))

\* evidence.slice(0, 10)
Slice(seq, n) == SubSeq(seq, 1, Min2(Len(seq), n))

\* the outer loop over FEATURE_PATTERNS, from entry k on
RECURSIVE DetectFrom(_, _)
DetectFrom(file, k) ==
    IF k > Len(Catalog) THEN << >>
    ELSE LET entry    == Catalog[k]
             evidence == EntryEvidence(file, entry.patterns, 1)
         IN  (IF Len(evidence) > 0
              THEN << [id |-> entry.id,
                       confidence |-> AdjustedConfidence(entry.confidence, Len(evidence)),
                       evidence |-> Slice(evidence, EvidenceCap)] >>
              ELSE << >>)
             \o DetectFrom(file, k + 1)

detectFeatures(file) == DetectFrom(file, 1)

\* files handed to detectFeatures alone: up to MaxMatches text matches a pattern
DetectFiles ==
    { File("f1", hits) : hits \in [Regexes -> [inPath : BOOLEAN, n : 0..MaxMatches]] }

\* the call detectFeatures(sourceFile, relativePath) on files[1]
Detect ==
    /\ pc = "start"
    /\ allFeatures' = detectFeatures(files[1])
    /\ pc' = "returned"
    /\ UNCHANGED <<restVars, cmdVars, inputVars, genVars, regenVars, files, fileIdx, mergeIdx, featuresMap, faulty>>

\* the file is edited: one more match of a pattern in its path or its text
DetectAgain ==
    /\ pc = "returned"
    /\ \E regex \in Regexes :
         \/ /\ ~files[1].hits[regex].inPath
            /\ files' = [files EXCEPT ![1].hits[regex].inPath = TRUE]
         \/ /\ files[1].hits[regex].n < MaxMatches
            /\ files' = [files EXCEPT ![1].hits[regex].n = @ + 1]
    /\ allFeatures' = detectFeatures(files'[1])
    /\ UNCHANGED <<restVars, cmdVars, inputVars, genVars, regenVars, fileIdx, mergeIdx, featuresMap, faulty, pc>>

InputsIdle ==
    /\ kbItems = <<>>
    /\ features = <<>>
    /\ configTopics = <<>>
    /\ options = [changedOnly |-> FALSE, dryRun |-> FALSE, mock |-> FALSE]
    /\ regenId = NoId
    /\ regenResult = <<>>

DetectInit ==
    /\ InputsIdle
    /\ GenIdle
    /\ CmdIdle
    /\ RestIdle
    /\ pc = "start"
    /\ files \in { <<f>> : f \in DetectFiles }
    /\ fileIdx = 0
    /\ allFeatures = <<>>
    /\ mergeIdx = 0
    /\ featuresMap = <<>>
    /\ faulty = NoFault

DetectNext == Detect \/ DetectAgain

SpecDetect == DetectInit /\ [][DetectNext]_vars

----------------------------------------------------------------------------
\* scanCodebase: the loop over the files and the deduplication of the features

\* what a pattern finds in a scanned file
ScanHits ==
    { [inPath |-> FALSE, n |-> 0], [inPath |-> TRUE, n |-> 0],
      [inPath |-> TRUE, n |-> ScanMatches] }

FilePath(k) == <<"f", k>>

\* project.getSourceFiles() of a project of n files, the k-th at path FilePath(k)
ScanFileLists(n) ==
    { [k \in 1..n |-> File(FilePath(k), hs[k])] : hs \in [1..n -> [Regexes -> ScanHits]] }

\* featuresMap.get(id), as a position in the map, 0 for undefined
MapIndex(map, id) ==
    LET at == {k \in 1..Len(map) : map[k].id = id}
    IN  IF at = {} THEN 0 ELSE MinOf(at)

Max2(a, b) == IF a >= b THEN a ELSE b

\* mutant: confidences added up (and capped) when evidence is merged
MergeFeatureAdding(map, feature) ==
    LET at == MapIndex(map, feature.id)
    IN  IF at # 0
        THEN [map EXCEPT ![at].evidence = @ \o feature.evidence,
                         ![at].confidence = Min2(@ + feature.confidence, 100)]
        ELSE Append(map, feature)

\* mutant: no deduplication, every per-file feature is kept
MergeFeatureAppending(map, feature) == Append(map, feature)

\* mutant: the confidence of the feature met last replaces the one kept
MergeFeatureLastWins(map, feature) ==
    LET at == MapIndex(map, feature.id)
    IN  IF at # 0
        THEN [map EXCEPT ![at].evidence = @ \o feature.evidence,
                         ![at].confidence = feature.confidence]
        ELSE Append(map, feature)

\* one turn of for (const feature of allFeatures)
MergeFeature(map, feature) ==
    LET at == MapIndex(map, feature.id)
    IN  IF at # 0
        THEN [map EXCEPT ![at].evidence = @ \o feature.evidence,
                         ![at].confidence = Max2(@, feature.confidence)]
        ELSE Append(map, feature)

\* at most one file of a project of n files makes ts-morph throw: when it is
\* added to the project (the path is not a readable file) or when the
\* extractors walk it
Faults(n) == {NoFault} \cup [file : 1..n, at : {"add", "extract"}]

\* for (const file of files) project.addSourceFileAtPath(file): every file loads
ScanAddFiles ==
    /\ pc = "add"
    /\ ~(faulty.file # 0 /\ faulty.at = "add")
    /\ pc' = "scan"
    /\ fileIdx' = 1
    /\ UNCHANGED <<restVars, cmdVars, inputVars, genVars, regenVars, files, allFeatures, mergeIdx,
                   featuresMap, faulty>>

\* project.addSourceFileAtPath(file) throws: nothing catches it in scanCodebase
ScanAddFileThrows ==
    /\ pc = "add"
    /\ faulty.file # 0 /\ faulty.at = "add"
    /\ pc' = "thrown"
    /\ UNCHANGED <<restVars, cmdVars, inputVars, genVars, regenVars, scanVars>>

\* one turn of for (const sourceFile of project.getSourceFiles())
ScanFile ==
    /\ pc = "scan"
    /\ fileIdx <= Len(files)
    /\ ~(faulty.file = fileIdx /\ faulty.at = "extract")
    /\ allFeatures' = allFeatures \o detectFeatures(files[fileIdx])
    /\ fileIdx' = fileIdx + 1
    /\ UNCHANGED <<restVars, cmdVars, inputVars, genVars, regenVars, files, mergeIdx, featuresMap, faulty, pc>>

\* an extractor throws on the file: the loop has no try, scanCodebase rejects
ScanFileThrows ==
    /\ pc = "scan"
    /\ fileIdx <= Len(files)
    /\ faulty.file = fileIdx /\ faulty.at = "extract"
    /\ pc' = "thrown"
    /\ UNCHANGED <<restVars, cmdVars, inputVars, genVars, regenVars, scanVars>>

\* the loop over the files is over: buildPages, then the deduplication starts
ScanFilesDone ==
    /\ pc = "scan"
    /\ fileIdx > Len(files)
    /\ pc' = "merge"
    /\ mergeIdx' = 1
    /\ featuresMap' = << >>
    /\ UNCHANGED <<restVars, cmdVars, inputVars, genVars, regenVars, files, fileIdx, allFeatures, faulty>>

ScanMerge ==
    /\ pc = "merge"
    /\ mergeIdx <= Len(allFeatures)
    /\ featuresMap' = MergeFeature(featuresMap, allFeatures[mergeIdx])
    /\ mergeIdx' = mergeIdx + 1
    /\ UNCHANGED <<restVars, cmdVars, inputVars, genVars, regenVars, files, fileIdx, allFeatures, faulty, pc>>

\* const features = Array.from(featuresMap.values()); return { ..., features, meta }
ScanReturn ==
    /\ pc = "merge"
    /\ mergeIdx > Len(allFeatures)
    /\ features' = featuresMap
    /\ pc' = "done"
    /\ UNCHANGED <<restVars, cmdVars, kbItems, configTopics, options, genVars, regenVars, scanVars>>

ScanInit ==
    /\ InputsIdle
    /\ GenIdle
    /\ CmdIdle
    /\ RestIdle
    /\ pc = "add"
    /\ \E n \in 0..MaxFiles : files \in ScanFileLists(n) /\ faulty \in Faults(n)
    /\ fileIdx = 0
    /\ allFeatures = <<>>
    /\ mergeIdx = 0
    /\ featuresMap = <<>>

ScanNext ==
    \/ ScanAddFiles
    \/ ScanAddFileThrows
    \/ ScanFile
    \/ ScanFileThrows
    \/ ScanFilesDone
    \/ ScanMerge
    \/ ScanReturn

SpecScan == ScanInit /\ [][ScanNext]_vars

----------------------------------------------------------------------------
\* scanCommand: kodex scan [--changed] [--dry-run] [--no-generate] [--mock]

\* scanCodebase as one call: the features of the files, deduplicated
scanFeatures(fs) ==
    LET all[k \in 0..Len(fs)] ==
            IF k = 0 THEN << >> ELSE all[k - 1] \o detectFeatures(fs[k])
        found == all[Len(fs)]
        merged[j \in 0..Len(found)] ==
            IF j = 0 THEN << >> ELSE MergeFeature(merged[j - 1], found[j])
    IN  merged[Len(found)]

\* the providers createModel knows
Providers == {"anthropic", "openai", "google"}

\* loadConfig resolves: the search finds a configuration and, the defaults
\* merged in, llm.provider and llm.model are not empty
LoadConfigOk(c) == c.content /\ c.provider # "" /\ c.model # ""

\* createModel resolves: getApiKey finds a key and the provider is a known one
CreateModelOk(c) == c.apiKey /\ c.provider \in Providers

\* docs.customTopics entry: its pattern is none of the catalog's
CustomPattern == "r4"

CustomTopic == [id |-> TopicC, patterns |-> <<CustomPattern>>]

ValidConfig ==
    [file |-> "yaml", content |-> TRUE, provider |-> "anthropic", model |-> "m",
     apiKey |-> TRUE, customTopics |-> << >>]

\* the configurations: no kodex.config.yaml, an empty one, a valid one, one
\* with a custom topic, llm.provider or llm.model set to nothing, a provider
\* createModel does not know, no API key in the configuration or the environment
Configs ==
    { NoConfig,
      [ValidConfig EXCEPT !.content = FALSE],
      ValidConfig,
      [ValidConfig EXCEPT !.customTopics = <<CustomTopic>>],
      [ValidConfig EXCEPT !.provider = ""],
      [ValidConfig EXCEPT !.model = ""],
      [ValidConfig EXCEPT !.provider = "mistral"],
      [ValidConfig EXCEPT !.apiKey = FALSE] }

\* docs.topics of these configurations
CmdTopics == << <<"a">> >>

\* a file whose path matches the patterns rs and no other
CmdFile(rs) ==
    File(FilePath(1),
         [r \in Regexes \cup {CustomPattern} |->
             [inPath |-> r \in rs, n |-> 0]])

CmdProjects ==
    { << >>, <<CmdFile({"r1"})>>, <<CmdFile({"r1", "r3", CustomPattern})>> }

\* .kodex/items.json before the command: nothing, or one item of the first topic
DiskItems ==
    { << >> } \cup
    { << [ExistingItem(1, c) EXCEPT !.sourceFiles = sf] >> :
        c \in {c \in ItemChoices : c.topic = TopicA},
        sf \in { << >>, <<FilePath(1)>> } }

Did(event) == io' = Append(io, event)

\* if (!existsSync(configPath)) { ...; return; }
CmdNotInitialized ==
    /\ pc = "cmd"
    /\ config.file = "none"
    /\ pc' = "exit"
    /\ UNCHANGED <<restVars, inputVars, genVars, regenVars, scanVars, cmdVars>>

\* loadConfig throws: 'Failed to load configuration', return
CmdLoadConfigFails ==
    /\ pc = "cmd"
    /\ config.file # "none"
    /\ ~LoadConfigOk(config)
    /\ pc' = "exit"
    /\ UNCHANGED <<restVars, inputVars, genVars, regenVars, scanVars, cmdVars>>

\* config = await loadConfig(cwd)
CmdLoadConfig ==
    /\ pc = "cmd"
    /\ config.file # "none"
    /\ LoadConfigOk(config)
    /\ configTopics' = CmdTopics
    /\ pc' = "loaded"
    /\ UNCHANGED <<restVars, kbItems, features, options, genVars, regenVars, scanVars, cmdVars>>

\* kb = await loadKnowledgeBase(cwd)
CmdLoadKb ==
    /\ pc = "loaded"
    /\ kbItems' = disk.items
    /\ Did("read")
    /\ pc' = "scan"
    /\ UNCHANGED <<restVars, features, configTopics, options, genVars, regenVars, scanVars,
                   config, cmdOptions, disk>>

\* codeMap = await scanCodebase(cwd, config.scan); kb.codeMap = codeMap
CmdScan ==
    /\ pc = "scan"
    /\ faulty = NoFault
    /\ features' = scanFeatures(files)
    /\ Did("scan")
    /\ pc' = "scanned"
    /\ UNCHANGED <<restVars, kbItems, configTopics, options, genVars, regenVars, scanVars,
                   config, cmdOptions, disk>>

\* scanCodebase rejects: 'Failed to scan codebase', return
CmdScanFails ==
    /\ pc = "scan"
    /\ faulty # NoFault
    /\ Did("scan")
    /\ pc' = "exit"
    /\ UNCHANGED <<restVars, inputVars, genVars, regenVars, scanVars, config, cmdOptions, disk>>

\* if (options.generate === false) { await saveKnowledgeBase(cwd, kb); return; }
CmdSaveScanOnly ==
    /\ pc = "scanned"
    /\ ~cmdOptions.generate
    /\ disk' = [items |-> kbItems, codeMap |-> <<features>>]
    /\ Did("write")
    /\ pc' = "exit"
    /\ UNCHANGED <<restVars, inputVars, genVars, regenVars, scanVars, config, cmdOptions>>

\* generateDocs(codeMap, config, kb, {changedOnly, dryRun, mock}) is called
CmdGenerate ==
    /\ pc = "scanned"
    /\ cmdOptions.generate
    /\ options' = [changedOnly |-> cmdOptions.changed, dryRun |-> cmdOptions.dryRun,
                   mock |-> cmdOptions.mock]
    /\ Did("plan")
    /\ pc' = "start"
    /\ UNCHANGED <<restVars, kbItems, features, configTopics, genVars, regenVars, scanVars,
                   config, cmdOptions, disk>>

\* generateDocs with this configuration: createModel resolves or is not called
CmdGenStart == (options.mock \/ CreateModelOk(config)) /\ GenStart

\* generateDocs with this configuration: createModel throws
CmdGenCreateModelThrows == ~CreateModelOk(config) /\ GenCreateModelThrows

\* mutant: the knowledge base is saved although generateDocs has thrown
CmdGenerateFailedSaves ==
    /\ pc = "thrown"
    /\ disk' = [items |-> kbItems, codeMap |-> <<features>>]
    /\ Did("write")
    /\ pc' = "exit"
    /\ UNCHANGED <<restVars, inputVars, genVars, regenVars, scanVars, config, cmdOptions>>

\* catch: 'Failed to generate documentation', return
CmdGenerateFailed ==
    /\ pc = "thrown"
    /\ pc' = "exit"
    /\ UNCHANGED <<restVars, inputVars, genVars, regenVars, scanVars, cmdVars>>

\* kb.items = result.items; if (!options.dryRun) await saveKnowledgeBase(cwd, kb)
CmdSave ==
    /\ pc = "done"
    /\ ~cmdOptions.dryRun
    /\ disk' = [items |-> items, codeMap |-> <<features>>]
    /\ Did("write")
    /\ pc' = "exit"
    /\ UNCHANGED <<restVars, inputVars, genVars, regenVars, scanVars, config, cmdOptions>>

\* else: 'Dry run - no files written'
CmdDryRunEnd ==
    /\ pc = "done"
    /\ cmdOptions.dryRun
    /\ pc' = "exit"
    /\ UNCHANGED <<restVars, inputVars, genVars, regenVars, scanVars, cmdVars>>

CmdInit ==
    /\ InputsIdle
    /\ GenIdle
    /\ RestIdle
    /\ pc = "cmd"
    /\ files \in CmdProjects
    /\ faulty \in Faults(Len(files))
    /\ fileIdx = 0
    /\ allFeatures = <<>>
    /\ mergeIdx = 0
    /\ featuresMap = <<>>
    /\ config \in Configs
    /\ cmdOptions \in [changed : BOOLEAN, dryRun : BOOLEAN, generate : BOOLEAN, mock : BOOLEAN]
    /\ disk \in [items : DiskItems, codeMap : { << >> }]
    /\ io = << >>

CmdNext ==
    \/ CmdNotInitialized
    \/ CmdLoadConfigFails
    \/ CmdLoadConfig
    \/ CmdLoadKb
    \/ CmdScan
    \/ CmdScanFails
    \/ CmdSaveScanOnly
    \/ CmdGenerate
    \/ CmdGenStart
    \/ CmdGenCreateModelThrows
    \/ GenSkipPinned
    \/ GenSkipUnchanged
    \/ GenDryRun
    \/ GenMock
    \/ GenBackendOk
    \/ GenBackendFails
    \/ GenReturn
    \/ CmdGenerateFailed
    \/ CmdSave
    \/ CmdDryRunEnd

SpecCommand == CmdInit /\ [][CmdNext]_vars

----------------------------------------------------------------------------
\* Dashboard: PUT /api/docs/[id] on the items.json of a project

\* .kodex/items.json as the dashboard finds it: nothing or one item
StoredItems == {kb \in KnowledgeBases : Len(kb) <= 1}

\* body.updates, a Partial<KnowledgeItem>: the fields the client sends
Updates ==
    { [content |-> << >>],
      [content |-> <<"new">>],
      [content |-> <<"new">>, humanEdited |-> FALSE],
      [content |-> << >>, status |-> "reviewed"],
      [status |-> "approved"],
      [pinned |-> TRUE] }

\* the requests: for the stored item or for an id no item has, with or
\* without body.path
Requests ==
    [id : {FreshId(t, 0 - 1) : t \in Range(TopicIds)}, path : BOOLEAN, updates : Updates]

\* a JavaScript string in a condition: the empty string is falsy
Truthy(str) == str # << >>

\* if (updates.content) { updates.humanEdited = true; }
MarkEdited(updates) ==
    IF "content" \in DOMAIN updates /\ Truthy(updates.content)
    THEN [f \in DOMAIN updates \cup {"humanEdited"} |->
             IF f = "humanEdited" THEN TRUE ELSE updates[f]]
    ELSE updates

\* { ...kb.items[index], ...updates, lastEditedAt: new Date().toISOString() }
MergeUpdates(item, updates, t) ==
    [f \in DOMAIN item \cup DOMAIN updates \cup {"lastEditedAt"} |->
        IF f = "lastEditedAt" THEN t
        ELSE IF f \in DOMAIN updates THEN updates[f]
        ELSE item[f]]

\* if (!projectPath) return 400
PutNoPath ==
    /\ pc = "put"
    /\ ~request.path
    /\ response' = [status |-> 400]
    /\ pc' = "responded"
    /\ UNCHANGED <<inputVars, genVars, regenVars, scanVars, cmdVars, request, extractVars, moreVars>>

\* updateKnowledgeItem finds no item with the id: null, 404
PutNotFound ==
    /\ pc = "put"
    /\ request.path
    /\ FindIndex(disk.items, request.id) = 0
    /\ response' = [status |-> 404]
    /\ pc' = "responded"
    /\ UNCHANGED <<inputVars, genVars, regenVars, scanVars, cmdVars, request, extractVars, moreVars>>

\* updateKnowledgeItem merges the updates into the item and saves the
\* knowledge base; saveDocMarkdown then writes the file (200) or throws (500)
PutUpdate ==
    /\ pc = "put"
    /\ request.path
    /\ LET index == FindIndex(disk.items, request.id)
       IN  /\ index # 0
           /\ now' = now + 1
           /\ disk' = [disk EXCEPT !.items[index] =
                          MergeUpdates(@, MarkEdited(request.updates), now')]
           /\ \E status \in {200, 500} :
                response' = [status |-> status, item |-> disk'.items[index]]
    /\ pc' = "responded"
    /\ UNCHANGED <<inputVars, items, generated, updated, skipped, i, calls, plan,
                   regenVars, scanVars, config, cmdOptions, io, request, extractVars, moreVars>>

PutInit ==
    /\ InputsIdle
    /\ GenIdle
    /\ ScanIdle
    /\ ExtractIdle
    /\ MoreIdle
    /\ config = NoConfig
    /\ cmdOptions = [changed |-> FALSE, dryRun |-> FALSE, generate |-> TRUE, mock |-> FALSE]
    /\ io = << >>
    /\ disk \in [items : StoredItems, codeMap : { << >> }]
    /\ request \in Requests
    /\ response = NoResponse
    /\ pc = "put"

PutNext == PutNoPath \/ PutNotFound \/ PutUpdate

SpecPut == PutInit /\ [][PutNext]_vars

----------------------------------------------------------------------------
\* Dashboard: two requests on the same project, their handlers interleaved
\* at the awaits of loadKnowledgeBase and saveKnowledgeBase

\* .kodex/items.json with two items, of the first and of the second topic
TwoItems ==
    {kb \in KnowledgeBases : Len(kb) = 2 /\ kb[1].topic = TopicA /\ kb[2].topic = TopicB}

ItemIds == {FreshId(TopicA, 0 - 1), FreshId(TopicB, 0 - 2), UnknownId}

\* what POST /api/regenerate hands to updateKnowledgeItem; the time is set
\* when the request is served
RegenerateUpdates == [generatedAt |-> 0, status |-> "draft", humanEdited |-> FALSE]

\* a request with body.path: PUT with its updates, DELETE, POST /api/regenerate
ApiRequests ==
    [kind : {"PUT"}, id : ItemIds, updates : {[content |-> <<"new">>], [pinned |-> TRUE]}]
    \cup [kind : {"DELETE"}, id : ItemIds, updates : {[pinned |-> FALSE]}]
    \cup [kind : {"POST"}, id : ItemIds, updates : {RegenerateUpdates}]

\* a handler at its start
Handler(req) ==
    [ kind |-> req.kind, id |-> req.id, updates |-> req.updates,
      at |-> (IF req.kind = "POST" THEN "get" ELSE "load"),
      local |-> << >>, status |-> 0, wrote |-> FALSE ]

OtherVarsOfApi ==
    <<inputVars, items, generated, updated, skipped, i, calls, plan, regenVars, scanVars,
      config, cmdOptions, io, apiVars, extractVars, docVars, candidates, firstRun>>

\* getKnowledgeItem in POST /api/regenerate: load, find, 404 when not found
ApiGet(p) ==
    /\ procs[p].at = "get"
    /\ procs' = [procs EXCEPT ![p].at = IF FindIndex(disk.items, procs[p].id) = 0
                                        THEN "done" ELSE "load",
                              ![p].status = IF FindIndex(disk.items, procs[p].id) = 0
                                            THEN 404 ELSE 0]
    /\ UNCHANGED <<OtherVarsOfApi, disk, now, pc>>

\* const kb = await loadKnowledgeBase(projectPath)
ApiLoad(p) ==
    /\ procs[p].at = "load"
    /\ procs' = [procs EXCEPT ![p].at = "loaded", ![p].local = disk.items]
    /\ UNCHANGED <<OtherVarsOfApi, disk, now, pc>>

\* mutant: the knowledge base is written back also when the id is not found
ApiNotFoundSaves(p) ==
    /\ procs[p].at = "loaded"
    /\ FindIndex(procs[p].local, procs[p].id) = 0
    /\ disk' = [disk EXCEPT !.items = procs[p].local]
    /\ procs' = [procs EXCEPT ![p].at = "done", ![p].wrote = TRUE,
                              ![p].status = IF procs[p].kind = "POST" THEN 200 ELSE 404]
    /\ UNCHANGED <<OtherVarsOfApi, now, pc>>

\* index === -1: updateKnowledgeItem returns null, deleteKnowledgeItem false;
\* PUT and DELETE answer 404, POST /api/regenerate answers with item: null
ApiNotFound(p) ==
    /\ procs[p].at = "loaded"
    /\ FindIndex(procs[p].local, procs[p].id) = 0
    /\ procs' = [procs EXCEPT ![p].at = "done",
                              ![p].status = IF procs[p].kind = "POST" THEN 200 ELSE 404]
    /\ UNCHANGED <<OtherVarsOfApi, disk, now, pc>>

\* the loaded list after the merge of the updates, or after the splice
Applied(h, t) ==
    LET index == FindIndex(h.local, h.id)
    IN  IF h.kind = "DELETE"
        THEN SubSeq(h.local, 1, index - 1) \o SubSeq(h.local, index + 1, Len(h.local))
        ELSE [h.local EXCEPT ![index] =
                 MergeUpdates(@, IF h.kind = "PUT" THEN MarkEdited(h.updates)
                                 ELSE [h.updates EXCEPT !.generatedAt = t], t)]

\* the item is found: the change is made on the loaded list and
\* saveKnowledgeBase writes that list
ApiSave(p) ==
    /\ procs[p].at = "loaded"
    /\ FindIndex(procs[p].local, procs[p].id) # 0
    /\ now' = now + 1
    /\ disk' = [disk EXCEPT !.items = Applied(procs[p], now')]
    /\ procs' = [procs EXCEPT ![p].at = "done", ![p].wrote = TRUE, ![p].status = 200,
                              ![p].local = Applied(procs[p], now')]
    /\ UNCHANGED <<OtherVarsOfApi, pc>>

ApiInit ==
    /\ InputsIdle
    /\ GenIdle
    /\ ScanIdle
    /\ ApiIdle
    /\ ExtractIdle
    /\ DocIdle
    /\ candidates = << >>
    /\ firstRun = NoFirstRun
    /\ config = NoConfig
    /\ cmdOptions = [changed |-> FALSE, dryRun |-> FALSE, generate |-> TRUE, mock |-> FALSE]
    /\ io = << >>
    /\ disk \in [items : TwoItems, codeMap : { << >> }]
    /\ \E r1 \in ApiRequests, r2 \in ApiRequests : procs = <<Handler(r1), Handler(r2)>>
    /\ pc = "api"

ApiNext ==
    \E p \in {1, 2} : ApiGet(p) \/ ApiLoad(p) \/ ApiNotFound(p) \/ ApiSave(p)

SpecApi == ApiInit /\ [][ApiNext]_vars

----------------------------------------------------------------------------
\* buildPages

SourcePaths == {"f1", "f2", "f3"}

ComponentNames == {"Home", "Nav"}

\* a Route: component is "" when the route names none
RouteChoices == [path : {"/r"}, sourceFile : SourcePaths, component : ComponentNames \cup {""}]

ComponentChoices == [name : ComponentNames, sourceFile : SourcePaths]

SeqsUpTo(S, n) == UNION { [1..k -> S] : k \in 0..n }

\* the strings of the scan: one in each file
ScanStrings ==
    << [value |-> "s1", sourceFile |-> "f1"],
       [value |-> "s2", sourceFile |-> "f2"],
       [value |-> "s3", sourceFile |-> "f3"] >>

\* the filter of components.filter(...): same file, or the route's component
IsPageComponent(route, c) ==
    \/ c.sourceFile = route.sourceFile
    \/ route.component # "" /\ c.name = route.component

\* components.filter(...).map(c => c.name)
PageComponents(route, comps) ==
    LET kept == SelectSeq(comps, LAMBDA c : IsPageComponent(route, c))
    IN  [k \in 1..Len(kept) |-> kept[k].name]

\* components.find(c => c.name === compName): the first with the name
FindComponent(comps, name) ==
    comps[MinOf({k \in 1..Len(comps) : comps[k].name = name})]

\* new Set([route.sourceFile]) and the forEach that adds comp.sourceFile, in
\* insertion order
PageSourceFiles(route, comps, names) ==
    LET add(set, f) == IF f \in Range(set) THEN set ELSE Append(set, f)
        upTo[k \in 0..Len(names)] ==
            IF k = 0 THEN <<route.sourceFile>>
            ELSE add(upTo[k - 1], FindComponent(comps, names[k]).sourceFile)
    IN  upTo[Len(names)]

\* one turn of for (const route of routes)
BuildPage(route, comps, strs) ==
    LET names == PageComponents(route, comps)
        sourceFiles == PageSourceFiles(route, comps, names)
    IN  [ path        |-> route.path,
          components  |-> names,
          sourceFiles |-> sourceFiles,
          strings     |-> SelectSeq(strs, LAMBDA str : str.sourceFile \in Range(sourceFiles)),
          features    |-> << >> ]

buildPages(rs, comps, strs) == [k \in 1..Len(rs) |-> BuildPage(rs[k], comps, strs)]

\* const pages = buildPages(routes, components, strings)
BuildPagesCall ==
    /\ pc = "build"
    /\ pages' = buildPages(routes, components, strings)
    /\ pc' = "built"
    /\ UNCHANGED <<inputVars, genVars, regenVars, scanVars, cmdVars, apiVars, moreVars, project,
                   frameworkSetting, framework, relativePath, routes, components, strings>>

PagesInit ==
    /\ InputsIdle
    /\ GenIdle
    /\ ScanIdle
    /\ CmdIdle
    /\ ApiIdle
    /\ MoreIdle
    /\ project = << >>
    /\ frameworkSetting = "auto"
    /\ framework = "undefined"
    /\ relativePath = << >>
    /\ routes \in SeqsUpTo(RouteChoices, MaxRoutes)
    /\ components \in SeqsUpTo(ComponentChoices, MaxComponents)
    /\ strings = ScanStrings
    /\ pages = << >>
    /\ pc = "build"

PagesNext == BuildPagesCall

SpecPages == PagesInit /\ [][PagesNext]_vars

----------------------------------------------------------------------------
\* detectFramework

\* String.prototype.includes
Includes(str, sub) ==
    \E k \in 1..(Len(str) - Len(sub) + 1) : SubSeq(str, k, k + Len(sub) - 1) = sub

\* sf.getFilePath() of the source files a project may hold
ProjectPaths ==
    { "/w/src/index.ts", "/w/src/app/page.tsx", "/w/pages/index.tsx",
      "/w/next.config.ts", "/w/src/server.ts", "/app/src/main.ts" }

\* the module specifiers of a file's import declarations
ImportLists ==
    { << >>, <<"react-router-dom">>, <<"express">>, <<"express-session">>,
      <<"react", "express", "react-router">> }

ProjectFiles == [path : ProjectPaths, imports : ImportLists]

\* config.framework; "undefined" when the key is absent
FrameworkSettings == {"auto", "react", "nextjs", "express", "undefined"}

hasNextConfig(sfs) == \E k \in 1..Len(sfs) : Includes(sfs[k].path, "next.config")

hasPagesDir(sfs) ==
    \E k \in 1..Len(sfs) :
        Includes(sfs[k].path, "/pages/") \/ Includes(sfs[k].path, "/app/")

hasReactRouter(sfs) ==
    \E k \in 1..Len(sfs) : \E m \in 1..Len(sfs[k].imports) :
        Includes(sfs[k].imports[m], "react-router")

hasExpress(sfs) ==
    \E k \in 1..Len(sfs) : \E m \in 1..Len(sfs[k].imports) :
        sfs[k].imports[m] = "express"

\* mutant: the express check comes before the react-router check
detectFrameworkExpressFirst(sfs) ==
    IF hasNextConfig(sfs) \/ hasPagesDir(sfs) THEN "nextjs"
    ELSE IF hasExpress(sfs) THEN "express"
    ELSE IF hasReactRouter(sfs) THEN "react"
    ELSE "undefined"

detectFramework(sfs) ==
    IF hasNextConfig(sfs) \/ hasPagesDir(sfs) THEN "nextjs"
    ELSE IF hasReactRouter(sfs) THEN "react"
    ELSE IF hasExpress(sfs) THEN "express"
    ELSE "undefined"

\* config.framework === 'auto' ? detectFramework(project, rootDir) : ...
FrameworkAuto ==
    /\ pc = "framework"
    /\ frameworkSetting = "auto"
    /\ framework' = detectFramework(project)
    /\ pc' = "detected"
    /\ UNCHANGED <<inputVars, genVars, regenVars, scanVars, cmdVars, apiVars, moreVars, project,
                   frameworkSetting, relativePath, routes, components, strings, pages>>

\* ... : config.framework
FrameworkPinned ==
    /\ pc = "framework"
    /\ frameworkSetting # "auto"
    /\ framework' = frameworkSetting
    /\ pc' = "detected"
    /\ UNCHANGED <<inputVars, genVars, regenVars, scanVars, cmdVars, apiVars, moreVars, project,
                   frameworkSetting, relativePath, routes, components, strings, pages>>

FrameworkInit ==
    /\ InputsIdle
    /\ GenIdle
    /\ ScanIdle
    /\ CmdIdle
    /\ ApiIdle
    /\ MoreIdle
    /\ project \in SeqsUpTo(ProjectFiles, MaxFiles)
    /\ frameworkSetting \in FrameworkSettings
    /\ framework = "undefined"
    /\ relativePath = << >>
    /\ routes = << >>
    /\ components = << >>
    /\ strings = << >>
    /\ pages = << >>
    /\ pc = "framework"

FrameworkNext == FrameworkAuto \/ FrameworkPinned

SpecFramework == FrameworkInit /\ [][FrameworkNext]_vars

----------------------------------------------------------------------------
\* extractRoutes: the routes a file gets from its path

Char(str, k) == SubSeq(str, k, k)

\* str has sub at position k
StartsAt(str, k, sub) ==
    /\ k >= 1
    /\ k + Len(sub) - 1 <= Len(str)
    /\ SubSeq(str, k, k + Len(sub) - 1) = sub

EndsWith(str, sub) == StartsAt(str, Len(str) - Len(sub) + 1, sub)

\* \w
WordChars ==
    { "a", "b", "c", "d", "e", "f", "g", "h", "i", "j", "k", "l", "m", "n", "o",
      "p", "q", "r", "s", "t", "u", "v", "w", "x", "y", "z", "_",
      "0", "1", "2", "3", "4", "5", "6", "7", "8", "9" }

\* the last position of the run of word characters that starts at k
\* (k - 1 when there is none)
WordEnd(str, k) ==
    MaxOf({k - 1} \cup {e \in k..Len(str) : \A j \in k..e : Char(str, j) \in WordChars})

\* (tsx?|jsx?)
Extensions == {"tsx", "ts", "jsx", "js"}

\* path.replace(/\/\([^)]+\)/g, '')
RECURSIVE StripGroups(_, _)
StripGroups(str, k) ==
    IF k > Len(str) THEN ""
    ELSE LET close == {j \in (k + 2)..Len(str) : Char(str, j) = ")"}
         IN  IF StartsAt(str, k, "/(") /\ close # {} /\ MinOf(close) > k + 2
             THEN StripGroups(str, MinOf(close) + 1)
             ELSE Char(str, k) \o StripGroups(str, k + 1)

\* path.replace(/\[\.\.\.([\w]+)\]/g, ':$1*')
RECURSIVE LowerCatchAll(_, _)
LowerCatchAll(str, k) ==
    IF k > Len(str) THEN ""
    ELSE LET e == WordEnd(str, k + 4)
         IN  IF StartsAt(str, k, "[...") /\ e >= k + 4 /\ StartsAt(str, e + 1, "]")
             THEN ":" \o SubSeq(str, k + 4, e) \o "*" \o LowerCatchAll(str, e + 2)
             ELSE Char(str, k) \o LowerCatchAll(str, k + 1)

\* path.replace(/\[([\w]+)\]/g, ':$1')
RECURSIVE LowerDynamic(_, _)
LowerDynamic(str, k) ==
    IF k > Len(str) THEN ""
    ELSE LET e == WordEnd(str, k + 1)
         IN  IF StartsAt(str, k, "[") /\ e >= k + 1 /\ StartsAt(str, e + 1, "]")
             THEN ":" \o SubSeq(str, k + 1, e) \o LowerDynamic(str, e + 2)
             ELSE Char(str, k) \o LowerDynamic(str, k + 1)

\* path.matchAll(/[:[\]]([\w]+)/g)
RECURSIVE DynamicParamsFrom(_, _)
DynamicParamsFrom(str, k) ==
    IF k > Len(str) THEN << >>
    ELSE LET e == WordEnd(str, k + 1)
         IN  IF Char(str, k) \in {":", "[", "]"} /\ e >= k + 1
             THEN <<SubSeq(str, k + 1, e)>> \o DynamicParamsFrom(str, e + 1)
             ELSE DynamicParamsFrom(str, k + 1)

extractDynamicParams(path) == DynamicParamsFrom(path, 1)

NoRoute == [path |-> "null"]

\* filePath.match(/app(\/.*?)\/page\./): the leftmost "app/", then up to
\* the first "/page." after it; the result is the captured group, or NoRoute
AppMatch(filePath) ==
    LET ends(k) == {j \in (k + 4)..Len(filePath) : StartsAt(filePath, j, "/page.")}
        starts == {k \in 1..Len(filePath) : StartsAt(filePath, k, "app/") /\ ends(k) # {}}
    IN  IF starts = {} THEN NoRoute
        ELSE [group |-> SubSeq(filePath, MinOf(starts) + 3, MinOf(ends(MinOf(starts))) - 1)]

extractNextAppRoute(filePath) ==
    IF ~\E ext \in Extensions : EndsWith(filePath, "page." \o ext) THEN NoRoute
    ELSE IF AppMatch(filePath) = NoRoute THEN NoRoute
    ELSE LET group == AppMatch(filePath).group
             first == IF group = "" THEN "/" ELSE group
             path  == LowerDynamic(LowerCatchAll(StripGroups(first, 1), 1), 1)
         IN  [ path   |-> IF path = "" THEN "/" ELSE path,
               params |-> extractDynamicParams(path) ]

\* filePath.match(/pages(\/.*?)\.(tsx?|jsx?)$/): the leftmost "pages/", then
\* up to the extension that ends the path
PagesMatch(filePath) ==
    LET dots == {j \in 1..Len(filePath) :
                   \E ext \in Extensions :
                       StartsAt(filePath, j, "." \o ext) /\ j + Len(ext) = Len(filePath)}
        starts == {k \in 1..Len(filePath) :
                     StartsAt(filePath, k, "pages/") /\ \E j \in dots : j >= k + 6}
    IN  IF starts = {} THEN NoRoute
        ELSE [group |-> SubSeq(filePath, MinOf(starts) + 5, MinOf(dots) - 1)]

extractNextPagesRoute(filePath) ==
    IF \/ Includes(filePath, "/api/")
       \/ Includes(filePath, "_app")
       \/ Includes(filePath, "_document")
    THEN NoRoute
    ELSE IF PagesMatch(filePath) = NoRoute THEN NoRoute
    ELSE LET group   == PagesMatch(filePath).group
             noIndex == IF EndsWith(group, "/index")
                        THEN SubSeq(group, 1, Len(group) - 6)
                        ELSE group
             path    == LowerDynamic(IF noIndex = "" THEN "/" ELSE noIndex, 1)
         IN  [path |-> path, params |-> extractDynamicParams(path)]

\* routes.push({ ...route, sourceFile: relativePath })
WithSourceFile(route, file) ==
    IF route = NoRoute THEN << >>
    ELSE << [path |-> route.path, params |-> route.params, sourceFile |-> file] >>

\* extractRoutes for a source file without <Route> elements and without
\* express calls: what is left is the path convention of Next
extractRoutes(file, fw) ==
    (IF fw = "nextjs" /\ Includes(file, "/app/")
     THEN WithSourceFile(extractNextAppRoute(file), file) ELSE << >>)
    \o
    (IF fw = "nextjs" /\ Includes(file, "/pages/")
     THEN WithSourceFile(extractNextPagesRoute(file), file) ELSE << >>)

\* relative(rootDir, sourceFile.getFilePath()): directories and a file name
RoutePrefixes == {"", "src/"}

RouterRoots == {"app", "pages"}

DirectoryNames == {"settings", "users", "[id]", "(admin)", "[...slug]", "pages"}

FileNames == {"page.tsx", "page.js", "layout.tsx", "index.tsx"}

RECURSIVE JoinDirs(_)
JoinDirs(dirs) ==
    IF dirs = << >> THEN "" ELSE Head(dirs) \o "/" \o JoinDirs(Tail(dirs))

RelativePaths(n) ==
    { prefix \o root \o "/" \o JoinDirs(dirs) \o name :
        prefix \in RoutePrefixes, root \in RouterRoots,
        dirs \in SeqsUpTo(DirectoryNames, n), name \in FileNames }

\* const fileRoutes = extractRoutes(sourceFile, relativePath, framework)
ExtractRoutes ==
    /\ pc = "routes"
    /\ routes' = extractRoutes(relativePath, framework)
    /\ pc' = "extracted"
    /\ UNCHANGED <<inputVars, genVars, regenVars, scanVars, cmdVars, apiVars, moreVars, project,
                   frameworkSetting, framework, relativePath, components, strings, pages>>

RoutesInit ==
    /\ InputsIdle
    /\ GenIdle
    /\ ScanIdle
    /\ CmdIdle
    /\ ApiIdle
    /\ MoreIdle
    /\ project = << >>
    /\ frameworkSetting \in {"auto", "react", "nextjs"}
    /\ framework = (IF frameworkSetting = "auto" THEN "undefined" ELSE frameworkSetting)
    /\ relativePath \in RelativePaths(MaxSegments)
    /\ routes = << >>
    /\ components = << >>
    /\ strings = << >>
    /\ pages = << >>
    /\ pc = "routes"

RoutesNext == ExtractRoutes

SpecRoutes == RoutesInit /\ [][RoutesNext]_vars

----------------------------------------------------------------------------
\* generateDoc on its own: the answers of the backend, one by one

SubsetsOf(S) == SUBSET S

\* JSON.stringify of the objects below
Stringify(obj) ==
    LET t == IF "title" \in obj.has
             THEN <<"\"title\":\"" \o (IF obj.title = <<>> THEN "" ELSE obj.title[1]) \o "\"">>
             ELSE << >>
        g == IF "pages" \in obj.has
             THEN <<"\"pages\":[" \o (IF obj.pages = <<>> THEN "" ELSE "\"" \o obj.pages[1] \o "\"") \o "]">>
             ELSE << >>
        c == IF "content" \in obj.has
             THEN <<"\"content\":\"" \o (IF obj.content = <<>> THEN "" ELSE obj.content[1]) \o "\"">>
             ELSE << >>
        parts == t \o g \o c
        join[k \in 0..Len(parts)] ==
            IF k = 0 THEN ""
            ELSE join[k - 1] \o (IF k = 1 THEN "" ELSE ",") \o parts[k]
    IN  "{" \o join[Len(parts)] \o "}"

\* the objects an answer may hold: each of title, pages and content is
\* absent, empty or filled
AnswerObjects ==
    { [kind |-> "object", has |-> has, title |-> t, pages |-> g, content |-> c] :
        has \in SubsetsOf({"title", "pages", "content"}),
        t \in {<<>>, <<"T">>}, g \in {<<>>, <<"/p">>}, c \in {<<>>, <<"body">>} }

\* absent properties carry no value
WellFormed(obj) ==
    /\ "title" \notin obj.has => obj.title = <<>>
    /\ "pages" \notin obj.has => obj.pages = <<>>
    /\ "content" \notin obj.has => obj.content = <<>>

\* result.text with what JSON.parse(result.text) gives: a SyntaxError, null,
\* a value without properties, or an object; "rejected" is generateText
\* rejecting
Answers ==
    { [text |-> "", parsed |-> [kind |-> "rejected"]],
      [text |-> "Here is the article: ...", parsed |-> [kind |-> "invalid"]],
      [text |-> "Sure! {\"title\":\"T\"}", parsed |-> [kind |-> "invalid"]],
      [text |-> "null", parsed |-> [kind |-> "null"]],
      [text |-> "42", parsed |-> [kind |-> "value"]],
      [text |-> "\"T\"", parsed |-> [kind |-> "value"]],
      [text |-> "[]", parsed |-> [kind |-> "value"]] }
    \cup { [text |-> Stringify(obj), parsed |-> obj] : obj \in {o \in AnswerObjects : WellFormed(o)} }

\* the try block up to the property reads: JSON.parse throws on a text that
\* is not JSON, reading .title of null throws, and both end in the catch; a
\* property that is absent reads as undefined
ReadAnswer(a) ==
    LET v == a.parsed
    IN  [ throws  |-> v.kind = "rejected",
          text    |-> <<a.text>>,
          json    |-> v.kind \in {"value", "object"},
          title   |-> IF v.kind = "object" /\ "title" \in v.has THEN v.title ELSE <<>>,
          pages   |-> IF v.kind = "object" /\ "pages" \in v.has THEN v.pages ELSE <<>>,
          content |-> IF v.kind = "object" /\ "content" \in v.has THEN v.content ELSE <<>> ]

\* generateText resolves and generateDoc returns
GenerateDocReturns ==
    /\ pc = "doc"
    /\ ~ReadAnswer(answer).throws
    /\ LET result == generateDoc(features[1], ReadAnswer(answer))
       IN  doc' = [ title |-> result.title, pages |-> result.pages,
                    content |-> result.content, returned |-> TRUE ]
    /\ pc' = "returned"
    /\ UNCHANGED <<inputVars, genVars, regenVars, scanVars, cmdVars, apiVars, extractVars, answer, laterVars>>

\* generateText rejects: nothing in generateDoc catches it
GenerateDocRejects ==
    /\ pc = "doc"
    /\ ReadAnswer(answer).throws
    /\ pc' = "rejected"
    /\ UNCHANGED <<inputVars, genVars, regenVars, scanVars, cmdVars, apiVars, extractVars, docVars, laterVars>>

DocInit ==
    /\ kbItems = << >>
    /\ \E id \in Range(TopicIds) : features = <<Feature(id)>>
    /\ configTopics \in TopicConfigs
    /\ options = [changedOnly |-> FALSE, dryRun |-> FALSE, mock |-> FALSE]
    /\ GenIdle
    /\ ScanIdle
    /\ CmdIdle
    /\ ApiIdle
    /\ ExtractIdle
    /\ regenId = NoId
    /\ regenResult = << >>
    /\ answer \in Answers
    /\ doc = NoDoc
    /\ LaterIdle
    /\ pc = "doc"

DocNext == GenerateDocReturns \/ GenerateDocRejects

SpecDoc == DocInit /\ [][DocNext]_vars

----------------------------------------------------------------------------
\* extractStrings: the filter on what the JSX of a file holds

LowerLetters == "abcdefghijklmnopqrstuvwxyz"

UpperLetters == "ABCDEFGHIJKLMNOPQRSTUVWXYZ"

Digits == "0123456789"

CharsOf(str) == {Char(str, k) : k \in 1..Len(str)}

\* c.toUpperCase() of one character
UpperChar(c) ==
    IF c \in CharsOf(LowerLetters)
    THEN Char(UpperLetters, CHOOSE k \in 1..26 : Char(LowerLetters, k) = c)
    ELSE c

\* str.toUpperCase()
RECURSIVE toUpperCase(_)
toUpperCase(str) ==
    IF str = "" THEN "" ELSE UpperChar(Char(str, 1)) \o toUpperCase(SubSeq(str, 2, Len(str)))

\* /^[a-z_][a-z0-9_]*$/i.test(str)
LooksLikeIdentifier(str) ==
    LET letters == CharsOf(LowerLetters) \cup CharsOf(UpperLetters) \cup {"_"}
    IN  /\ Len(str) >= 1
        /\ Char(str, 1) \in letters
        /\ \A k \in 2..Len(str) : Char(str, k) \in letters \cup CharsOf(Digits)

isUserFacing(str) ==
    /\ ~(Len(str) < 2)
    /\ ~LooksLikeIdentifier(str)
    /\ ~(StartsAt(str, 1, "/") \/ StartsAt(str, 1, "http"))
    /\ ~(Includes(str, "=>") \/ Includes(str, "()"))
    /\ ~(str = toUpperCase(str) /\ Len(str) > 3)

\* values a file may hold in its JSX attributes and texts
StringValues ==
    { "/dashboard", "onClick", "ID", "a", "Enable 2FA", "Change Password",
      "OK", "Hi", "NO!", "Save", "SAVE NOW", "API_KEY", "Log in",
      "http://x.io", "x => y", "save()", "1234", "$19.99", "100%", "#1" }

\* the strings collected before the filter, in document order
CandidateLists(n) ==
    { [k \in 1..Len(vs) |-> [value |-> vs[k], sourceFile |-> "f1", line |-> k, type |-> "other"]] :
        vs \in SeqsUpTo(StringValues, n) }

\* return strings.filter(s => isUserFacing(s.value))
ExtractStrings ==
    /\ pc = "strings"
    /\ strings' = SelectSeq(candidates, LAMBDA str : isUserFacing(str.value))
    /\ pc' = "filtered"
    /\ UNCHANGED <<inputVars, genVars, regenVars, scanVars, cmdVars, apiVars, moreVars,
                   project, frameworkSetting, framework, relativePath, routes, components,
                   pages>>

StringsInit ==
    /\ InputsIdle
    /\ GenIdle
    /\ ScanIdle
    /\ CmdIdle
    /\ ApiIdle
    /\ DocIdle
    /\ project = << >>
    /\ frameworkSetting = "auto"
    /\ framework = "undefined"
    /\ relativePath = << >>
    /\ routes = << >>
    /\ components = << >>
    /\ candidates \in CandidateLists(MaxStrings)
    /\ firstRun = NoFirstRun
    /\ procs = << >>
    /\ strings = << >>
    /\ pages = << >>
    /\ pc = "strings"

StringsNext == ExtractStrings

SpecStrings == StringsInit /\ [][StringsNext]_vars

----------------------------------------------------------------------------
\* Properties of generateDocs (under Spec)

\* generateDocs has passed its entry: items and the counters are in use
Running == pc \in {"loop", "done"}

\* the files the current evidence of a feature refers to
EvidenceFiles(f) == {f.evidence[j].sourceFile : j \in 1..Len(f.evidence)}

PlanWith(classes) == {k \in 1..Len(plan) : plan[k].class \in classes}

\* the k-th line of the plan is about the k-th eligible topic
PlanFollowsTopics ==
    /\ Len(plan) <= Len(topicsToGenerate)
    /\ \A k \in 1..Len(plan) :
         /\ plan[k].topic = topicsToGenerate[k].id
         /\ plan[k].existing = ExistingByTopic(plan[k].topic)
    /\ (pc = "done" => Len(plan) = Len(topicsToGenerate))

\* the counters are the numbers of plan lines of each kind
CountersFollowPlan ==
    /\ skipped = Cardinality(PlanWith({"skip-pinned", "skip-unchanged", "failed"}))
    /\ updated = Cardinality(PlanWith({"update"}))
    /\ generated = Cardinality(PlanWith({"create"}))

\* the backend was called for line k of the plan, and for no other line
CalledFor(k) ==
    /\ plan[k].call \in 1..Len(calls)
    /\ calls[plan[k].call].topic = plan[k].topic

NotCalledFor(k) ==
    /\ plan[k].call = 0
    /\ \A c \in 1..Len(calls) : calls[c].topic # plan[k].topic

\* where the item of plan line k is in the returned list: in place of the
\* existing item, or behind the existing items in order of creation
Position(k) ==
    IF plan[k].existing # 0 THEN plan[k].existing
    ELSE Len(kbItems) + Cardinality({j \in 1..k : plan[j].class = "create"})

\* C1: a topic whose existing item is pinned is counted as skipped, the backend
\* is never called for it, and every pinned item is in the returned list as it
\* was, whatever the options, the evidence and the backend do.
C1_PinnedNeverRegenerated ==
    Running =>
        /\ PlanFollowsTopics
        /\ CountersFollowPlan
        /\ \A k \in 1..Len(kbItems) :
             kbItems[k].pinned => k <= Len(items) /\ items[k] = kbItems[k]
        /\ \A k \in 1..Len(plan) :
             LET ex == ExistingByTopic(plan[k].topic)
             IN  (ex # 0 /\ kbItems[ex].pinned) =>
                     /\ plan[k].class = "skip-pinned"
                     /\ NotCalledFor(k)

C1_Witness ==
    /\ pc = "done"
    /\ ~options.dryRun /\ ~options.changedOnly
    /\ \E k \in 1..Len(plan) :
         /\ plan[k].class = "skip-pinned"
         /\ ~(EvidenceFiles(topicsToGenerate[k])
                \subseteq Range(kbItems[plan[k].existing].sourceFiles))
    /\ \E k \in 1..Len(plan) : plan[k].class = "update"

C3_HumanEditedCleared ==
    (Running /\ ~options.dryRun) =>
        \A k \in 1..Len(plan) :
            plan[k].class = "update" => ~items[plan[k].existing].humanEdited

C5_FailureIsolated ==
    /\ pc = "thrown" => calls = <<>> /\ plan = <<>>
    /\ Running =>
        /\ PlanFollowsTopics
        /\ CountersFollowPlan
        /\ ~options.dryRun =>
             Len(items) = Len(kbItems) + Cardinality(PlanWith({"create"}))
        /\ \A k \in 1..Len(plan) :
             LET topic == topicsToGenerate[k]
                 ex    == ExistingByTopic(topic.id)
                 skip  == \/ ex # 0 /\ kbItems[ex].pinned
                          \/ /\ options.changedOnly /\ ex # 0
                             /\ EvidenceFiles(topic) \subseteq Range(kbItems[ex].sourceFiles)
             IN  IF skip \/ options.dryRun
                 THEN /\ plan[k].class # "failed"
                      /\ NotCalledFor(k)
                 ELSE /\ CalledFor(k)
                      /\ IF calls[plan[k].call].ok
                         THEN /\ plan[k].class = (IF ex # 0 THEN "update" ELSE "create")
                              /\ items[Position(k)] =
                                    NewItem(topic, ex, calls[plan[k].call].result,
                                            items[Position(k)].generatedAt)
                         ELSE /\ plan[k].class = "failed"
                              /\ ex # 0 => items[ex] = kbItems[ex]

C5_Witness ==
    /\ pc = "done"
    /\ Len(plan) = 3
    /\ plan[1].class = "update"
    /\ plan[2].class = "failed" /\ plan[2].existing # 0
    /\ plan[3].class = "create"

\* C7: without changedOnly every eligible topic with an existing unpinned item
\* goes to generation as an update and every eligible topic without an item as
\* a create; in any mode a topic without an item is never skipped before the
\* backend is tried, only a failed call makes it skipped.
C7_FullRegeneration ==
    Running =>
        \A k \in 1..Len(plan) :
            LET topic == topicsToGenerate[k]
                ex    == ExistingByTopic(topic.id)
                goes  == IF options.dryRun
                         THEN /\ plan[k].class = (IF ex # 0 THEN "update" ELSE "create")
                              /\ NotCalledFor(k)
                         ELSE /\ CalledFor(k)
                              /\ plan[k].class =
                                   (IF ~calls[plan[k].call].ok THEN "failed"
                                    ELSE IF ex # 0 THEN "update" ELSE "create")
            IN  /\ (~options.changedOnly /\ ex # 0 /\ ~kbItems[ex].pinned) => goes
                /\ ex = 0 => goes

C7_Witness ==
    /\ pc = "done"
    /\ ~options.changedOnly /\ ~options.dryRun
    /\ \E k \in PlanWith({"update"}) :
         EvidenceFiles(topicsToGenerate[k])
            \subseteq Range(kbItems[plan[k].existing].sourceFiles)
    /\ PlanWith({"create"}) # {}

\* c is the text of id before its first '.' (all of id when it has none)
IsCategoryOf(c, id) ==
    /\ \A k \in 1..Len(c) : c[k] # "."
    /\ Len(c) <= Len(id)
    /\ \A k \in 1..Len(c) : id[k] = c[k]
    /\ Len(id) > Len(c) => id[Len(c) + 1] = "."

Allowed(id) == \E k \in 1..Len(configTopics) : IsCategoryOf(configTopics[k], id)

\* C24: when generateDocs returns, generated + updated + skipped is the
\* number of eligible topics (features whose category is in the allow-list),
\* each of them counted once: in a dry run, in a real run, whether the
\* backend answers or fails.
C24_CountersCoverEligible ==
    pc = "done" =>
        LET eligible == {k \in 1..Len(features) : Allowed(features[k].id)}
        IN  /\ generated + updated + skipped = Cardinality(eligible)
            /\ Len(plan) = Cardinality(eligible)
            /\ generated = Cardinality({k \in 1..Len(plan) : plan[k].class = "create"})
            /\ updated = Cardinality({k \in 1..Len(plan) : plan[k].class = "update"})
            /\ skipped = Cardinality({k \in 1..Len(plan) : plan[k].class \notin {"create", "update"}})

\* a run with one topic in each counter, the skipped one after a failed call
C24_Witness ==
    /\ pc = "done"
    /\ ~options.dryRun
    /\ generated = 1 /\ updated = 1 /\ skipped = 1
    /\ \E k \in 1..Len(plan) : plan[k].class = "failed"
    /\ Cardinality({k \in 1..Len(features) : Allowed(features[k].id)}) = 3

\* C25: generateDocs neither removes nor reorders existing items: at every
\* index of the existing list the returned list holds an item of the same id
\* and topic; an item whose topic is not detected or not in the allow-list is
\* returned as it was; the returned list is longer by the generated count in
\* a real run and not at all in a dry run.
C25_ItemsKeepTheirPlace ==
    Running =>
        /\ Len(items) >= Len(kbItems)
        /\ \A m \in 1..Len(kbItems) :
             /\ items[m].id = kbItems[m].id
             /\ items[m].topic = kbItems[m].topic
             /\ (~\E k \in 1..Len(features) :
                     features[k].id = kbItems[m].topic /\ Allowed(features[k].id))
                    => items[m] = kbItems[m]
        /\ pc = "done" =>
             Len(items) = Len(kbItems) + (IF options.dryRun THEN 0 ELSE generated)

\* the first existing item was regenerated in place, the second one belongs
\* to a topic that is not detected any more, and a new item was appended
C25_Witness ==
    /\ pc = "done"
    /\ ~options.dryRun
    /\ Len(kbItems) = 2
    /\ items[1] # kbItems[1]
    /\ items[1].id = kbItems[1].id
    /\ \A k \in 1..Len(features) : features[k].id # kbItems[2].topic
    /\ items[2] = kbItems[2]
    /\ Len(items) = 3

\* the eligible features generateDocs neither skips as pinned nor, with
\* changedOnly, as unchanged
Written ==
    {k \in 1..Len(features) :
        /\ Allowed(features[k].id)
        /\ LET ex == ExistingByTopic(features[k].id)
           IN  /\ ~(ex # 0 /\ kbItems[ex].pinned)
               /\ ~(/\ options.changedOnly
                    /\ ex # 0
                    /\ EvidenceFiles(features[k]) \subseteq Range(kbItems[ex].sourceFiles))}

HasItem(k) == \E m \in 1..Len(kbItems) : kbItems[m].topic = features[k].id

\* C28: with dryRun the generation backend is never called and the items
\* generateDocs holds and returns are exactly the existing ones; when it
\* returns, updated is the number of eligible, not pinned, not unchanged
\* topics that have an item and generated the number of those that have none.
C28_DryRunOnlyCounts ==
    (options.dryRun /\ Running) =>
        /\ calls = << >>
        /\ items = kbItems
        /\ pc = "done" =>
             /\ updated = Cardinality({k \in Written : HasItem(k)})
             /\ generated = Cardinality({k \in Written : ~HasItem(k)})

\* a dry run that returned after counting one topic in each counter
C28_Witness ==
    /\ pc = "done"
    /\ options.dryRun
    /\ kbItems # << >>
    /\ generated = 1 /\ updated = 1 /\ skipped = 1

\* the lines of the first run's plan whose generation succeeded
Succeeded == {k \in 1..Len(firstRun.plan) : firstRun.plan[k].class \in {"update", "create"}}

\* C26 (under SpecRerun): when the items returned by a real run become the
\* knowledge base of a second run on the same code map with changedOnly,
\* every topic generated or updated by the first run is skipped by the
\* second, without a backend call, and its item is returned as it was.
C26_RerunIsFixpoint ==
    (firstRun.done /\ Running) =>
        /\ kbItems = firstRun.items
        /\ \A k \in Succeeded :
             LET topic == firstRun.plan[k].topic
                 at    == {m \in 1..Len(kbItems) : kbItems[m].topic = topic}
             IN  /\ at # {}
                 /\ \A m \in at : items[m] = kbItems[m]
                 /\ \A c \in 1..Len(calls) : calls[c].topic # topic
                 /\ \A j \in 1..Len(plan) :
                      plan[j].topic = topic =>
                          plan[j].class = "skip-unchanged" /\ plan[j].call = 0
                 /\ pc = "done" => \E j \in 1..Len(plan) : plan[j].topic = topic
        /\ pc = "done" => skipped >= Cardinality(Succeeded)

\* the first run updated one item and created another; the second run has
\* returned after skipping both
C26_Witness ==
    /\ firstRun.done
    /\ pc = "done"
    /\ \E k \in Succeeded : firstRun.plan[k].class = "update"
    /\ \E k \in Succeeded : firstRun.plan[k].class = "create"
    /\ \A j \in 1..Len(plan) : plan[j].class = "skip-unchanged"
    /\ Len(plan) >= 2
    /\ calls = << >>
    /\ items = kbItems

\* C8: a feature is considered exactly when the text before the first '.' of
\* its id is one of config.docs.topics; any other feature gets no line of the
\* plan, no backend call and no count, and the items of its topic stay as
\* they were.
C8_AllowList ==
    Running =>
        /\ generated + updated + skipped = Len(plan)
        /\ Len(plan) <= Cardinality({k \in 1..Len(features) : Allowed(features[k].id)})
        /\ \A k \in 1..Len(features) :
             IF Allowed(features[k].id)
             THEN pc = "done" => \E j \in 1..Len(plan) : plan[j].topic = features[k].id
             ELSE /\ \A j \in 1..Len(plan) : plan[j].topic # features[k].id
                  /\ \A c \in 1..Len(calls) : calls[c].topic # features[k].id
                  /\ \A m \in 1..Len(kbItems) :
                       kbItems[m].topic = features[k].id => items[m] = kbItems[m]

C8_Witness ==
    /\ pc = "done"
    /\ ~options.dryRun /\ ~options.changedOnly
    /\ PlanWith({"update"}) # {}
    /\ \E k \in 1..Len(features), m \in 1..Len(kbItems) :
         /\ ~Allowed(features[k].id)
         /\ kbItems[m].topic = features[k].id
         /\ ~kbItems[m].pinned
         /\ \E c \in 1..Len(configTopics) :
              SubSeq(features[k].id, 1, Len(configTopics[c])) = configTopics[c]

----------------------------------------------------------------------------
\* Properties of regenerateSingleDoc (under SpecRegen)

\* C6: a regeneration request for a pinned item leaves its sourceFiles,
\* confidence, content, generatedAt, status and humanEdited as they were.
C6_PinnedNotOverwritten ==
    (pc = "returned" /\ RegenExisting # 0 /\ kbItems[RegenExisting].pinned) =>
        \A n \in 1..Len(regenResult) :
            LET old == kbItems[RegenExisting]
                new == regenResult[n]
            IN  /\ new.sourceFiles = old.sourceFiles
                /\ new.confidence = old.confidence
                /\ new.content = old.content
                /\ new.generatedAt = old.generatedAt
                /\ new.status = old.status
                /\ new.humanEdited = old.humanEdited

----------------------------------------------------------------------------
\* Properties of detectFeatures (under SpecDetect)

\* the number of evidence records the file holds for a catalog entry
HitCount(file, entry) ==
    LET hits(r) == (IF file.hits[r].inPath THEN 1 ELSE 0) + file.hits[r].n
        sum[k \in 0..Len(entry.patterns)] ==
            IF k = 0 THEN 0 ELSE sum[k - 1] + hits(entry.patterns[k])
    IN  sum[Len(entry.patterns)]

FeaturesWith(fs, id) == {j \in 1..Len(fs) : fs[j].id = id}

ConfidenceIn(fs, id) == fs[CHOOSE j \in FeaturesWith(fs, id) : TRUE].confidence

C10_Formula ==
    pc = "returned" =>
        \A e \in 1..Len(Catalog) :
            LET n    == HitCount(files[1], Catalog[e])
                base == Catalog[e].confidence
                sum  == base + (IF n >= 3 THEN 5 ELSE 0) + (IF n >= 5 THEN 5 ELSE 0)
                at   == FeaturesWith(allFeatures, Catalog[e].id)
            IN  IF n = 0 THEN at = {}
                ELSE /\ Cardinality(at) = 1
                     /\ \A j \in at :
                          /\ allFeatures[j].confidence = (IF sum > 100 THEN 100 ELSE sum)
                          /\ allFeatures[j].confidence >= base
                          /\ allFeatures[j].confidence <= 100

C10_Monotone ==
    \A e \in 1..Len(Catalog) :
        (/\ FeaturesWith(allFeatures, Catalog[e].id) # {}
         /\ FeaturesWith(allFeatures', Catalog[e].id) # {}
         /\ HitCount(files'[1], Catalog[e]) >= HitCount(files[1], Catalog[e]))
        => ConfidenceIn(allFeatures', Catalog[e].id)
               >= ConfidenceIn(allFeatures, Catalog[e].id)

\* C10: per file the confidence of a topic is the catalog base, plus 0.05 from
\* 3 evidence records on, plus 0.05 more from 5 on, capped at 1.0; it lies in
\* [base, 1.0] and never decreases when the file gains evidence.
C10_PerFileConfidence == [](C10_Formula) /\ [][C10_Monotone]_vars

C10_Witness ==
    /\ pc = "returned"
    /\ HitCount(files[1], Catalog[1]) \in {3, 4}
    /\ ConfidenceIn(allFeatures, Catalog[1].id) = 95
    /\ HitCount(files[1], Catalog[2]) >= 5
    /\ ConfidenceIn(allFeatures, Catalog[2].id) = 100

\* what a pattern of the entry finds in the file: one record for the path
\* when it matches, and one for each match in the text
FoundBy(file, regex) == (IF file.hits[regex].inPath THEN 1 ELSE 0) + file.hits[regex].n

\* the records found before the m-th pattern of the entry is tried
FoundBefore(file, entry, m) ==
    LET sum[k \in 0..Len(entry.patterns)] ==
            IF k = 0 THEN 0 ELSE sum[k - 1] + FoundBy(file, entry.patterns[k])
    IN  sum[m - 1]

\* the k-th record found for the entry: patterns in catalog order, for each
\* the path match on line 1 first, then the text matches as they stand
FoundAt(file, entry, k) ==
    LET m     == CHOOSE m \in 1..Len(entry.patterns) :
                     /\ FoundBefore(file, entry, m) < k
                     /\ k <= FoundBefore(file, entry, m) + FoundBy(file, entry.patterns[m])
        regex == entry.patterns[m]
        l     == k - FoundBefore(file, entry, m)
    IN  IF file.hits[regex].inPath
        THEN IF l = 1
             THEN [pattern |-> <<regex, "source">>, sourceFile |-> file.path, line |-> 1]
             ELSE [pattern |-> <<regex, "match">>, sourceFile |-> file.path, line |-> l - 1]
        ELSE [pattern |-> <<regex, "match">>, sourceFile |-> file.path, line |-> l]

\* C22: detectFeatures returns at most 10 evidence records for a topic of a
\* file, the 10 found first (patterns in catalog order, the path match before
\* the text matches, these in text order), and the confidence is adjusted by
\* the number of records found, not by the number kept.
C22_EvidenceCapped ==
    pc = "returned" =>
        \A e \in 1..Len(Catalog) : \A j \in FeaturesWith(allFeatures, Catalog[e].id) :
            LET n    == HitCount(files[1], Catalog[e])
                kept == allFeatures[j].evidence
            IN  /\ Len(kept) <= 10
                /\ Len(kept) = (IF n <= 10 THEN n ELSE 10)
                /\ \A k \in 1..Len(kept) : kept[k] = FoundAt(files[1], Catalog[e], k)
                /\ allFeatures[j].confidence =
                     Min2(100, Catalog[e].confidence + (IF n >= 3 THEN 5 ELSE 0)
                                                     + (IF n >= 5 THEN 5 ELSE 0))

\* a topic with more than 10 records in the file: 10 are returned
C22_Witness ==
    /\ pc = "returned"
    /\ HitCount(files[1], Catalog[1]) > 10
    /\ \E j \in FeaturesWith(allFeatures, Catalog[1].id) :
         /\ Len(allFeatures[j].evidence) = 10
         /\ allFeatures[j].evidence[10] = FoundAt(files[1], Catalog[1], 10)

----------------------------------------------------------------------------
\* Properties of scanCodebase (under SpecScan)

\* the files that yield a feature for the topic
FilesWith(id) ==
    {k \in 1..Len(files) : FeaturesWith(detectFeatures(files[k]), id) # {}}

\* the per-file evidence lists of the topic, one after the other in file order
RECURSIVE EvidenceUpTo(_, _)
EvidenceUpTo(id, k) ==
    IF k = 0 THEN << >>
    ELSE LET fs == detectFeatures(files[k])
             at == FeaturesWith(fs, id)
         IN  EvidenceUpTo(id, k - 1)
             \o (IF at = {} THEN << >> ELSE fs[CHOOSE j \in at : TRUE].evidence)

\* C9: the confidence of a merged feature is the maximum of the per-file
\* confidences of its id, not their sum or average, and its evidence is the
\* per-file evidence lists put together.
C9_MergedConfidence ==
    pc = "done" =>
        \A m \in 1..Len(features) :
            LET id == features[m].id
            IN  /\ FilesWith(id) # {}
                /\ features[m].confidence =
                     MaxOf({ConfidenceIn(detectFeatures(files[k]), id) : k \in FilesWith(id)})
                /\ features[m].evidence = EvidenceUpTo(id, Len(files))

C9_Witness ==
    /\ pc = "done"
    /\ Len(files) = 2
    /\ FilesWith(Catalog[1].id) = {1, 2}
    /\ \A k \in {1, 2} : ConfidenceIn(detectFeatures(files[k]), Catalog[1].id) = 90
    /\ ConfidenceIn(features, Catalog[1].id) = 90
    /\ FilesWith(Catalog[2].id) = {1, 2}
    /\ ConfidenceIn(detectFeatures(files[1]), Catalog[2].id) = 95
    /\ ConfidenceIn(detectFeatures(files[2]), Catalog[2].id) = 100
    /\ ConfidenceIn(features, Catalog[2].id) = 100

\* the ids of the catalog for which some scanned file holds evidence
IdsWithEvidence ==
    {Catalog[e].id : e \in {e \in 1..Len(Catalog) :
                              \E k \in 1..Len(files) : HitCount(files[k], Catalog[e]) > 0}}

\* C11: in the CodeMap scanCodebase returns no two features share an id, and
\* a feature with an id is there if and only if some scanned file holds at
\* least one evidence record (path match or content match) for that topic.
C11_OneFeaturePerId ==
    pc = "done" =>
        /\ \A m, n \in 1..Len(features) : features[m].id = features[n].id => m = n
        /\ {features[m].id : m \in 1..Len(features)} = IdsWithEvidence
        /\ \A m \in 1..Len(features) : Len(features[m].evidence) >= 1

C11_Witness ==
    /\ pc = "done"
    /\ Len(files) = 2
    /\ HitCount(files[1], Catalog[1]) > 0 /\ HitCount(files[2], Catalog[1]) > 0
    /\ HitCount(files[1], Catalog[2]) = 0 /\ HitCount(files[2], Catalog[2]) = 0
    /\ Len(features) = 1
    /\ features[1].id = Catalog[1].id

\* the features of the files ts-morph does not throw on, merged file by file
RECURSIVE FeaturesOfSound(_, _)
FeaturesOfSound(k, map) ==
    IF k > Len(files) THEN map
    ELSE LET fs == IF faulty.file = k THEN << >> ELSE detectFeatures(files[k])
             merged[j \in 0..Len(fs)] ==
                 IF j = 0 THEN map ELSE MergeFeature(merged[j - 1], fs[j])
         IN  FeaturesOfSound(k + 1, merged[Len(fs)])

\* C12: a file that cannot be loaded, or on which an extractor throws, does
\* not abort scanCodebase: the scan ends with a CodeMap that holds the
\* features of every other file and nothing of the failing one.
C12_FailingFileSkipped ==
    /\ pc # "thrown"
    /\ (pc = "done" => features = FeaturesOfSound(1, << >>))

\* the orders in which the scanned files can be processed
Orderings ==
    {q \in [1..Len(files) -> 1..Len(files)] :
        \A a, b \in 1..Len(files) : q[a] = q[b] => a = b}

\* the features of the files taken in the order q, merged as scanCodebase
\* merges them
RECURSIVE MergedInOrder(_, _, _)
MergedInOrder(q, k, map) ==
    IF k > Len(files) THEN map
    ELSE LET fs == detectFeatures(files[q[k]])
             merged[j \in 0..Len(fs)] ==
                 IF j = 0 THEN map ELSE MergeFeature(merged[j - 1], fs[j])
         IN  MergedInOrder(q, k + 1, merged[Len(fs)])

\* how many times each record occurs in a list
Occurrences(list) ==
    [e \in Range(list) |-> Cardinality({j \in 1..Len(list) : list[j] = e})]

\* two merged feature lists that differ in list order only
SameMerge(fs, gs) ==
    /\ {fs[m].id : m \in 1..Len(fs)} = {gs[n].id : n \in 1..Len(gs)}
    /\ Len(fs) = Len(gs)
    /\ \A m \in 1..Len(fs) : \A n \in 1..Len(gs) :
         fs[m].id = gs[n].id =>
            /\ fs[m].confidence = gs[n].confidence
            /\ Occurrences(fs[m].evidence) = Occurrences(gs[n].evidence)

\* C29: the merge of the per-file features does not depend on the order of
\* the files: the features scanCodebase returns and the merge of the same
\* per-file results taken in any other order have the same ids, the same
\* confidence per id and the same evidence records per id, each as many times.
C29_MergeOrderIndependent ==
    pc = "done" =>
        \A q \in Orderings : SameMerge(features, MergedInOrder(q, 1, << >>))

\* two files hold evidence of the same topic with different confidences, and
\* the other order of the files yields the evidence in another list order
C29_Witness ==
    /\ pc = "done"
    /\ Len(files) = 2
    /\ FilesWith(Catalog[2].id) = {1, 2}
    /\ ConfidenceIn(detectFeatures(files[1]), Catalog[2].id)
         # ConfidenceIn(detectFeatures(files[2]), Catalog[2].id)
    /\ \E q \in Orderings : MergedInOrder(q, 1, << >>) # features

----------------------------------------------------------------------------
\* Properties of scanCommand (under SpecCommand)

Events(event) == {k \in 1..Len(io) : io[k] = event}

\* a required scan, topic or backend setting is missing or invalid
ConfigInvalid(c) == c.file = "none" \/ ~LoadConfigOk(c) \/ ~CreateModelOk(c)

\* C13: scanCommand does not start scanning when the configuration is
\* missing or invalid (no configuration, llm.provider missing or unknown,
\* llm.model missing, no API key to be found): it ends before scanCodebase.
C13_NoScanWithInvalidConfig ==
    ConfigInvalid(config) => Events("scan") = {}

\* what the command has read, planned and written so far is in order
C14_Formula ==
    /\ Cardinality(Events("read")) <= 1
    /\ Cardinality(Events("write")) <= 1
    /\ pc \in {"scan", "scanned", "start", "loop", "done", "thrown"} =>
          /\ Events("read") = {1}
          /\ Events("write") = {}
          /\ disk.items = kbItems
    /\ \A k \in Events("plan") : \E r \in Events("read") : r < k
    /\ \A k \in Events("write") :
          /\ k = Len(io)
          /\ pc = "exit"
          /\ \E r \in Events("read") : r < k

\* a step writes only once generateDocs has returned, or after the scan when
\* nothing is to be generated; no step writes while the topics are resolved
\* or after generateDocs has thrown
C14_Step ==
    /\ (disk' # disk \/ io' = Append(io, "write")) =>
          \/ pc = "done"
          \/ pc = "scanned" /\ ~cmdOptions.generate
    /\ pc \in {"start", "loop", "thrown"} => disk' = disk /\ io' = io

\* C14: in one scanCommand the knowledge base is read once, before planning,
\* and written at most once, after generateDocs has resolved every topic (or
\* after the scan with --no-generate); nothing is written between two
\* topics, and nothing when generateDocs fails as a whole.
C14_ReadOnceWriteOnce == [](C14_Formula) /\ [][C14_Step]_vars

C14_Witness ==
    /\ pc = "exit"
    /\ io = <<"read", "scan", "plan", "write">>
    /\ Len(plan) = 2
    /\ plan[1].class = "update" /\ plan[2].class = "create"
    /\ disk.items = items
    /\ disk.items # kbItems

\* C15: with --dry-run saveKnowledgeBase is not called and no file is
\* written, whatever the other options and whatever the scan and the
\* generation do.
C15_DryRunWritesNothing ==
    cmdOptions.dryRun => Events("write") = {}

\* the custom topic's pattern matches the path or the text of a scanned file
CustomMatches(t) ==
    \E k \in 1..Len(files) : \E j \in 1..Len(t.patterns) :
        LET h == files[k].hits[t.patterns[j]]
        IN  h.inPath \/ h.n > 0

\* C16: a custom topic of docs.customTopics is detected as a catalog entry
\* is: when one of its patterns matches a scanned file, the CodeMap has a
\* feature with its id.
C16_CustomTopicDetected ==
    (pc \in {"scanned", "start", "loop", "done"}) =>
        \A j \in 1..Len(config.customTopics) :
            CustomMatches(config.customTopics[j]) =>
                \E m \in 1..Len(features) : features[m].id = config.customTopics[j].id

----------------------------------------------------------------------------
\* Properties of PUT /api/docs/[id] (under SpecPut)

\* C17: when PUT /api/docs/[id] changes the content of an item, with any
\* updates.content including the empty string, the stored item has
\* humanEdited = true afterwards.
C17_ContentEditMarksHumanEdited ==
    (pc = "responded" /\ response.status \in {200, 500}
       /\ "content" \in DOMAIN request.updates) =>
        \A k \in 1..Len(disk.items) :
            disk.items[k].id = request.id =>
                /\ disk.items[k].content = request.updates.content
                /\ disk.items[k].humanEdited

----------------------------------------------------------------------------
\* Properties of buildPages (under SpecPages)

\* the components gathered for a route, as positions in the components list
Gathered(route) ==
    {k \in 1..Len(components) : IsPageComponent(route, components[k])}

GatheredFiles(route) ==
    {route.sourceFile} \cup {components[k].sourceFile : k \in Gathered(route)}

\* C18: for each route buildPages produces a page whose components are the
\* components in the route's file or with the name of the route's component,
\* whose sourceFiles are the route's file and the files of those components,
\* and whose strings are the strings of those files; also when components of
\* different files share a name.
C18_PageOfRoute ==
    pc = "built" =>
        /\ Len(pages) = Len(routes)
        /\ \A r \in 1..Len(routes) :
             LET kept == SelectSeq(components, LAMBDA c : IsPageComponent(routes[r], c))
             IN  /\ pages[r].path = routes[r].path
                 /\ pages[r].components = [k \in 1..Len(kept) |-> kept[k].name]
                 /\ Range(pages[r].sourceFiles) = GatheredFiles(routes[r])
                 /\ pages[r].strings =
                      SelectSeq(strings, LAMBDA str : str.sourceFile \in GatheredFiles(routes[r]))

----------------------------------------------------------------------------
\* Properties of detectFramework (under SpecFramework)

\* the files that mark a Next project: its configuration file, or a file
\* under an app or pages directory (the path is the absolute one, so a
\* project kept under /app counts)
NextMarked ==
    { "/w/src/app/page.tsx", "/w/pages/index.tsx", "/w/next.config.ts",
      "/app/src/main.ts" }

RouterModules == {"react-router", "react-router-dom"}

ProjectHasPath(paths) == \E k \in 1..Len(project) : project[k].path \in paths

ProjectImports(modules) ==
    \E k \in 1..Len(project) : Range(project[k].imports) \cap modules # {}

\* C19: with framework 'auto' a Next marker gives nextjs whatever is
\* imported, otherwise a react-router import gives react even when express is
\* imported, otherwise an express import gives express, otherwise undefined;
\* a pinned framework is used as it is.
C19_FrameworkPriority ==
    pc = "detected" =>
        /\ frameworkSetting \in {"react", "nextjs", "express"} =>
             framework = frameworkSetting
        /\ frameworkSetting = "auto" =>
             framework =
               IF ProjectHasPath(NextMarked) THEN "nextjs"
               ELSE IF ProjectImports(RouterModules) THEN "react"
               ELSE IF ProjectImports({"express"}) THEN "express"
               ELSE "undefined"

\* no marker, and one file imports both react-router and express
C19_Witness ==
    /\ pc = "detected"
    /\ frameworkSetting = "auto"
    /\ ~ProjectHasPath(NextMarked)
    /\ ProjectImports(RouterModules)
    /\ ProjectImports({"express"})
    /\ framework = "react"

----------------------------------------------------------------------------
\* Properties of extractRoutes (under SpecRoutes)

\* the path cut at its slashes
RECURSIVE SplitFrom(_, _, _)
SplitFrom(str, k, word) ==
    IF k > Len(str) THEN <<word>>
    ELSE IF Char(str, k) = "/" THEN <<word>> \o SplitFrom(str, k + 1, "")
    ELSE SplitFrom(str, k + 1, word \o Char(str, k))

PathSegments == SplitFrom(relativePath, 1, "")

\* <prefix>app/<segments>/page.<tsx|ts|jsx|js>
IsAppPage ==
    /\ PathSegments[Len(PathSegments)] \in {"page.tsx", "page.ts", "page.jsx", "page.js"}
    /\ \E k \in 1..(Len(PathSegments) - 1) : PathSegments[k] = "app"

\* the directories between the routing root and the file name
RouteDirs ==
    LET root == MinOf({k \in 1..(Len(PathSegments) - 1) : PathSegments[k] = "app"})
    IN  SubSeq(PathSegments, root + 1, Len(PathSegments) - 1)

\* what a directory contributes to the route path, and its parameter
Lowered ==
    [ dir \in DirectoryNames |->
        CASE dir = "[id]"      -> [part |-> "/:id",    params |-> <<"id">>]
          [] dir = "[...slug]" -> [part |-> "/:slug*", params |-> <<"slug">>]
          [] dir = "(admin)"   -> [part |-> "",        params |-> << >>]
          [] OTHER             -> [part |-> "/" \o dir, params |-> << >>] ]

RECURSIVE ExpectedPath(_)
ExpectedPath(dirs) ==
    IF dirs = << >> THEN "" ELSE Lowered[Head(dirs)].part \o ExpectedPath(Tail(dirs))

RECURSIVE ExpectedParams(_)
ExpectedParams(dirs) ==
    IF dirs = << >> THEN << >> ELSE Lowered[Head(dirs)].params \o ExpectedParams(Tail(dirs))

\* C20: under nextjs a file <prefix>app/<segments>/page.<ext>, with the prefix
\* and the segments possibly empty, yields exactly one route; its path is '/'
\* followed by the segments joined by '/', groups removed and dynamic
\* segments lowered, and its params are the parameter names in order.
C20_AppRouterRoute ==
    (pc = "extracted" /\ framework = "nextjs" /\ IsAppPage) =>
        /\ Len(routes) = 1
        /\ routes[1].sourceFile = relativePath
        /\ routes[1].path =
             (IF ExpectedPath(RouteDirs) = "" THEN "/" ELSE ExpectedPath(RouteDirs))
        /\ routes[1].params = ExpectedParams(RouteDirs)

\* the part of the statement the code does keep: a nested page below a
\* non-empty prefix, with no directory called pages
C20_NestedPage ==
    ( /\ pc = "extracted" /\ framework = "nextjs" /\ IsAppPage
      /\ PathSegments[1] # "app"
      /\ RouteDirs # << >>
      /\ "pages" \notin Range(RouteDirs) ) =>
        /\ Len(routes) = 1
        /\ routes[1].path =
             (IF ExpectedPath(RouteDirs) = "" THEN "/" ELSE ExpectedPath(RouteDirs))
        /\ routes[1].params = ExpectedParams(RouteDirs)

----------------------------------------------------------------------------
\* Properties of generateDoc (under SpecDoc)

\* the display name of a topic: the last part of its id, dashes as spaces
DisplayName(id) ==
    IF id = TopicA THEN <<"x", " ", "y">>
    ELSE IF id = TopicB THEN <<"z">>
    ELSE <<"x">>

\* the answer holds a filled property of this name
Filled(name) ==
    /\ answer.parsed.kind = "object"
    /\ name \in answer.parsed.has
    /\ answer.parsed[name] # <<>>

Absent(name) == answer.parsed.kind # "object" \/ name \notin answer.parsed.has

\* C21: once generateText has resolved generateDoc returns, whatever the
\* text: a text that is not JSON, or JSON without a title, pages or content,
\* gets the topic's display name as title, no pages and the raw text as
\* content for what is missing; what the JSON does hold is kept.
C21_MalformedResponseKept ==
    /\ pc = "rejected" => answer.parsed.kind = "rejected"
    /\ pc = "returned" =>
         /\ doc.returned
         /\ Absent("title") => doc.title = DisplayName(features[1].id)
         /\ Absent("pages") => doc.pages = << >>
         /\ Absent("content") => doc.content = <<answer.text>>
         /\ Filled("title") => doc.title = answer.parsed.title
         /\ Filled("pages") => doc.pages = answer.parsed.pages
         /\ Filled("content") => doc.content = answer.parsed.content

\* a text that is not JSON has become the content of the returned article
C21_Witness ==
    /\ pc = "returned"
    /\ answer.parsed.kind = "invalid"
    /\ doc.returned
    /\ doc.content = <<answer.text>>
    /\ doc.title = DisplayName(features[1].id)

----------------------------------------------------------------------------
\* Properties of extractStrings (under SpecStrings)

IsLetter(c) == c \in CharsOf(LowerLetters) \cup CharsOf(UpperLetters)

\* a name: letters, digits and underscores, not starting with a digit
BareIdentifier(str) ==
    /\ str # ""
    /\ Char(str, 1) \notin CharsOf(Digits)
    /\ \A c \in CharsOf(str) : IsLetter(c) \/ c \in CharsOf(Digits) \/ c = "_"

\* written in capitals: it has letters, and none of them is a small one
FullyUpperCase(str) ==
    /\ \E c \in CharsOf(str) : IsLetter(c)
    /\ \A c \in CharsOf(str) : c \notin CharsOf(LowerLetters)

\* the five conditions of the filter
UserFacing(str) ==
    /\ Len(str) >= 2
    /\ ~BareIdentifier(str)
    /\ ~(StartsAt(str, 1, "/") \/ StartsAt(str, 1, "http"))
    /\ ~Includes(str, "=>") /\ ~Includes(str, "()")
    /\ ~(FullyUpperCase(str) /\ Len(str) > 3)

\* C23: extractStrings returns, in order, exactly the collected strings that
\* are at least 2 long, are no bare identifier, do not start with '/' or
\* 'http', hold neither '=>' nor '()' and are not fully upper-case when longer
\* than 3 characters.
C23_UserFacingFilter ==
    pc = "filtered" =>
        strings = SelectSeq(candidates, LAMBDA str : UserFacing(str.value))

\* the part that holds whatever "upper-case" means for a text without
\* letters: what is returned passes the filter, strings with a letter are
\* kept exactly when the five conditions hold, and the six examples
C23_Examples ==
    pc = "filtered" =>
        /\ \A k \in 1..Len(strings) : isUserFacing(strings[k].value)
        /\ \A k \in 1..Len(candidates) :
             (\E c \in CharsOf(candidates[k].value) : IsLetter(c)) =>
                 (UserFacing(candidates[k].value)
                      <=> \E j \in 1..Len(strings) : strings[j] = candidates[k])
        /\ \A k \in 1..Len(strings) :
             strings[k].value \notin {"/dashboard", "onClick", "ID", "a"}
        /\ \A k \in 1..Len(candidates) :
             candidates[k].value \in {"Enable 2FA", "Change Password"}
                 => \E j \in 1..Len(strings) : strings[j] = candidates[k]

----------------------------------------------------------------------------
\* Properties of the dashboard storage (under SpecApi)

StoredWith(id) == {m \in 1..Len(disk.items) : disk.items[m].id = id}

\* the stored knowledge base shows what the request asked for
Reflected(h) ==
    IF h.kind = "DELETE" THEN StoredWith(h.id) = {}
    ELSE /\ StoredWith(h.id) # {}
         /\ \A m \in StoredWith(h.id) :
              \A f \in DOMAIN h.updates \ {"generatedAt"} :
                  disk.items[m][f] = h.updates[f]

\* C27: two requests for different stored items, an update and an update or
\* an update and a delete, both served: the stored knowledge base shows both
\* changes, however their loads and saves were interleaved.
C27_NoLostUpdate ==
    ( /\ procs[1].at = "done" /\ procs[2].at = "done"
      /\ procs[1].id # procs[2].id
      /\ procs[1].id # UnknownId /\ procs[2].id # UnknownId
      /\ procs[1].status = 200 /\ procs[2].status = 200
      /\ "DELETE" \notin {procs[1].kind, procs[2].kind} \/ procs[1].kind # procs[2].kind )
        => Reflected(procs[1]) /\ Reflected(procs[2])

StoredIds(list) == {list[k].id : k \in 1..Len(list)}

\* a request whose id names no stored item has been answered
AnsweredUnknown(h) == h.at = "done" /\ h.id = UnknownId

\* the step a handler takes when its lookup does not find the id: it ends
\* there, and the file is not written
NotFoundStep(p) ==
    LET h == procs[p]
        missed == \/ h.at = "get" /\ h.id \notin StoredIds(disk.items)
                  \/ h.at = "loaded" /\ h.id \notin StoredIds(h.local)
    IN  (missed /\ procs'[p] # h) =>
            /\ procs'[p].at = "done"
            /\ ~procs'[p].wrote
            /\ disk' = disk
            /\ (h.at = "get" \/ h.kind # "POST") => procs'[p].status = 404

\* C30 (under SpecApi): a PUT or DELETE /api/docs/[id] or a POST
\* /api/regenerate whose id names no stored item is answered 404 and its
\* handler writes nothing; the step on which updateKnowledgeItem,
\* deleteKnowledgeItem or getKnowledgeItem does not find the id leaves
\* items.json as it is.
C30_UnknownIdChangesNothing ==
    /\ [](\A p \in {1, 2} :
            /\ AnsweredUnknown(procs[p]) => procs[p].status = 404 /\ ~procs[p].wrote
            /\ (procs[p].id = UnknownId /\ procs[p].at # "done") => procs[p].status = 0)
    /\ [][\A p \in {1, 2} : NotFoundStep(p)]_vars
    /\ [][(procs[1].id = UnknownId /\ procs[2].id = UnknownId) => disk' = disk]_vars

\* a PUT and a POST for an id that is not stored have both been answered and
\* the two stored items are still there
C30_Witness ==
    /\ procs[1].kind = "PUT" /\ AnsweredUnknown(procs[1])
    /\ procs[2].kind = "POST" /\ AnsweredUnknown(procs[2])
    /\ procs[1].status = 404 /\ procs[2].status = 404
    /\ Len(disk.items) = 2

\* C30, for the generator (under SpecRegen): regenerateSingleDoc called with
\* an id that is not in the knowledge base returns null without a backend call
C30_RegenerateUnknown ==
    (pc = "returned" /\ regenId \notin StoredIds(kbItems)) =>
        regenResult = << >> /\ calls = << >>

C30_RegenerateWitness ==
    pc = "returned" /\ regenId = UnknownId /\ kbItems # << >>
====
